---- MODULE Spec2Model ----
(***************************************************************************)
(* Container execution engine of multilang-behavior-engine: the repository *)
(* stager (clone_or_update_repo), the process invokers (run_podman,        *)
(* _run_git, PodmanRunner.run), the test orchestrators, the service        *)
(* deployer and the language adapter registry.                             *)
(***************************************************************************)
EXTENDS Integers, Sequences, FiniteSets, TLC

(* ------------------------------------------------------------------ *)
(* Bounds                                                              *)
(* ------------------------------------------------------------------ *)

\* total number of orchestration / stage calls started in one behaviour
MaxCalls == 2
\* highest commit number the remote branch "main" can be pushed to
MaxTip == 3

\* callers that may be inside the engine at the same time
Procs == {"p1", "p2"}

(* ------------------------------------------------------------------ *)
(* Remote repositories and revisions (the world git talks to)          *)
(* ------------------------------------------------------------------ *)

\* a repository URL as the code takes it apart: the path up to the last "/",
\* the last path segment, and what trails it ("" , ".git" or "/")
Url(owner, repo, trail) == [owner |-> owner, repo |-> repo, trail |-> trail]

Urls ==
    { Url("o1", "a", ""), Url("o1", "a", ".git"), Url("o1", "a", "/"),
      Url("o2", "a", ""), Url("o1", "b", "") }

\* the remote repository a URL names
RemoteOf(url) == <<url.owner, url.repo>>

Remotes == { RemoteOf(u) : u \in Urls }

\* revisions: a branch, a tag, a full commit id and an abbreviated commit id.
\* Commit 1 of every remote carries tag v1; branch main starts at commit 2.
Rev(kind, name) == [kind |-> kind, name |-> name]
RevMain == Rev("branch", "main")
RevTag == Rev("tag", "v1")
RevSha == Rev("commit", "c1full")
RevShort == Rev("commit", "c1abbrev")
Revisions == { RevMain, RevTag, RevSha, RevShort }

\* a row's missing repo_url / revision
NoUrl == Url("", "", "")
NoRev == Rev("none", "")

\* the commit a revision names in a repository whose branch main is at `main`
ResolveRev(rev, main) == IF rev.kind = "branch" THEN main ELSE 1

(* ------------------------------------------------------------------ *)
(* State                                                               *)
(* ------------------------------------------------------------------ *)

VARIABLES
    calls,       \* per caller: the call it is inside and where it stands
    fs,          \* host directories that exist, by path
    tip,         \* per remote repository: the commit branch main points to
    containers,  \* the containers the container runtime holds
    env,         \* what the host provides: binaries on PATH, a usable GIT_BIN
    started,     \* number of calls started so far
    adapters,    \* _ADAPTERS: the registry, lowercased name -> profile
    base_adapters \* _ADAPTERS of adapters/base.py, a registry of its own

vars == <<calls, fs, tip, containers, env, started, adapters, base_adapters>>

\* settings.ANALYZER_WORKSPACE_ROOT and the service workspace root
WorkspaceRoot == "workspace"
ServiceWorkspaceRoot == "services_workspace"

NoPath == <<>>
NoErr == [type |-> "none", what |-> "none", exit_code |-> -1]
NoResult == [kind |-> "none"]

\* a caller that is not inside any call
Idle ==
    [ op |-> "idle", pc |-> "idle", url |-> NoUrl, base |-> "", rev |-> NoRev,
      path |-> NoPath, cmds |-> <<>>, touched |-> {}, outcome |-> "none",
      err |-> NoErr, result |-> NoResult, fault |-> FALSE,
      impl |-> 0, impl2 |-> 0, phase |-> 0, root1 |-> NoPath,
      behavior_id |-> 0, contract_id |-> 0, host_port |-> -1, ran |-> NoResult,
      label |-> "", round |-> 0, language |-> <<>>,
      snap |-> NoResult, removal |-> NoResult, build |-> NoResult, head1 |-> 0,
      contract_args |-> NoResult, clone_url |-> NoUrl, stderr_has_token |-> FALSE ]

\* a directory holding a checkout: its origin remote, the commit HEAD is at,
\* the commit of the local branch main, whether HEAD is on that branch.
\* label is history: the label of the call that created the directory.
\* secret: the URL of remote "origin" in the checkout's config embeds a token.
Checkout(origin, head, main, onBranch) ==
    [origin |-> origin, head |-> head, main |-> main, onBranch |-> onBranch,
     label |-> "", secret |-> FALSE]

Exists(path) == path \in DOMAIN fs

Max(a, b) == IF a >= b THEN a ELSE b

(* ------------------------------------------------------------------ *)
(* Raising and returning                                               *)
(* ------------------------------------------------------------------ *)

Raise(c, type, what, code) ==
    [c EXCEPT !.pc = "done", !.outcome = "raised",
              !.err = [type |-> type, what |-> what, exit_code |-> code]]

Return(c, result) ==
    [c EXCEPT !.pc = "done", !.outcome = "returned", !.result = result]

Issue(c, cmd) == [c EXCEPT !.cmds = Append(@, cmd)]

GitCmd(verb, path, rev) == [tool |-> "git", verb |-> verb, path |-> path, rev |-> rev]


(* ------------------------------------------------------------------ *)
(* Language adapters and the registry (app/adapters)                   *)
(* ------------------------------------------------------------------ *)

\* names are sequences of characters, so that case can be folded
Uppers == <<"P", "Y", "T", "H", "O", "N", "E", "R", "L", "U", "B">>
Lowers == <<"p", "y", "t", "h", "o", "n", "e", "r", "l", "u", "b">>

\* str.lower() on one character
LowerChar(ch) ==
    IF \E i \in DOMAIN Uppers : Uppers[i] = ch
    THEN Lowers[CHOOSE i \in DOMAIN Uppers : Uppers[i] = ch]
    ELSE ch

\* str.upper() on one character
UpperChar(ch) ==
    IF \E i \in DOMAIN Lowers : Lowers[i] = ch
    THEN Uppers[CHOOSE i \in DOMAIN Lowers : Lowers[i] = ch]
    ELSE ch

Lower(name) == [i \in DOMAIN name |-> LowerChar(name[i])]
Upper(name) == [i \in DOMAIN name |-> UpperChar(name[i])]

\* a command is absent, one shell string, or an argument vector
NoCmd == [form |-> "none"]
Shell(text) == [form |-> "shell", text |-> text]
Argv(words) == [form |-> "argv", words |-> words]

Profile(name, image, build, test) ==
    [name |-> name, docker_image |-> image, build |-> build, test |-> test]

\* PythonAdapter and PerlAdapter; their commands are computed from the
\* project root by build_command / test_command below
python_adapter ==
    Profile(<<"p", "y", "t", "h", "o", "n">>, "python:3.12-slim", NoCmd, NoCmd)
perl_adapter == Profile(<<"p", "e", "r", "l">>, "perl:5.38", NoCmd, NoCmd)

\* adapter.build_command(project_root)
build_command(a, root) ==
    IF a = python_adapter
    THEN Shell("cd " \o root \o " && pip install -r requirements.txt")
    ELSE IF a = perl_adapter THEN NoCmd
    ELSE a.build

\* adapter.test_command(project_root)
test_command(a, root) ==
    IF a = python_adapter THEN Shell("cd " \o root \o " && python -m pytest")
    ELSE IF a = perl_adapter THEN Shell("cd " \o root \o " && prove -r t")
    ELSE a.test

\* adapter.run_contract_test_command(behavior_id, contract_id, project_root)
run_contract_test_command(a, behavior_id, contract_id, root) ==
    IF a = python_adapter
    THEN Shell("cd " \o root \o " && export PYTHONPATH=/code:$PYTHONPATH; python -m pytest")
    ELSE IF a = perl_adapter
    THEN Shell("cd " \o root \o " && export PERL5LIB=/code/lib:/code:$PERL5LIB; prove -r t")
    ELSE a.test

\* register_adapter: _ADAPTERS[adapter.name.lower()] = adapter
RegisterIn(reg, a) ==
    [k \in DOMAIN reg \cup {Lower(a.name)} |-> IF k = Lower(a.name) THEN a ELSE reg[k]]

\* the registry after import of app.adapters (lines 22 and 27-33)
ImportedAdapters == RegisterIn(RegisterIn(<<>>, python_adapter), perl_adapter)

\* get_adapter: the key looked up, and whether it is there
AdapterKeyExact(language) == language
AdapterKey(language) == Lower(language)
HasAdapter(language) == AdapterKey(language) \in DOMAIN adapters
get_adapter(language) == adapters[AdapterKey(language)]

(* ------------------------------------------------------------------ *)
(* The metadata store (BehaviorImplementation rows)                    *)
(* ------------------------------------------------------------------ *)

Row(language, url, rev, file_path, behavior_id) ==
    [language |-> language, repo_url |-> url, revision |-> rev,
     file_path |-> file_path, behavior_id |-> behavior_id]

Python == <<"p", "y", "t", "h", "o", "n">>
PythonCap == <<"P", "y", "t", "h", "o", "n">>
Perl == <<"p", "e", "r", "l">>
Ruby == <<"r", "u", "b", "y">>

\* rows 1 and 2: one repository at two revisions; row 3: another owner's
\* repository of the same name; rows 4-7: incomplete or unsupported metadata;
\* row 8: the harness of row 1, the same repository at a tag
Impls ==
    [i \in 1..8 |->
        CASE i = 1 -> Row(Python, Url("o1", "a", ""), RevMain, "app/ui.py", 11)
          [] i = 2 -> Row(PythonCap, Url("o1", "a", ".git"), RevTag, "app/ui.py", 11)
          [] i = 3 -> Row(Perl, Url("o2", "a", ""), RevMain, "cgi-bin/ui.cgi", 12)
          [] i = 4 -> Row(Python, NoUrl, RevMain, "app/ui.py", 13)
          [] i = 5 -> Row(Ruby, Url("o1", "b", ""), RevMain, "app.rb", 14)
          [] i = 6 -> Row(Perl, Url("o1", "b", ""), NoRev, "lib/ui.pl", 15)
          [] i = 7 -> Row(Python, Url("o1", "b", ""), RevShort, "", 16)
          [] i = 8 -> Row(Python, Url("o1", "a", ""), RevTag, "tests/run.py", 11)]

\* ids that callers pass; 9 names no row
ImplIds == 1..9

HasRow(id) == id \in DOMAIN Impls

\* the label of an implementation's workspace: run_label = f"impl_{id}"
ImplLabel(id) == "impl_" \o ToString(id)

\* impl.revision or "main"
RevisionOrMain(row) == IF row.revision = NoRev THEN RevMain ELSE row.revision

(* ------------------------------------------------------------------ *)
(* git, as the stager drives it                                        *)
(* ------------------------------------------------------------------ *)

\* a directory that is no checkout (a workspace root, or a foreign directory)
PlainDir == Checkout("none", 0, 0, FALSE)

IsRepo(dir) == dir.origin # "none"

\* git fetch origin: needs a checkout and the network; moves nothing the
\* stager reads
GitFetchOk(dir, net) == IsRepo(dir) /\ net

\* git checkout <rev>: a branch puts HEAD on the local branch, a tag or a
\* commit id (full or abbreviated) detaches HEAD at that commit
GitCheckoutOk(dir, rev) == IsRepo(dir)

GitCheckout(dir, rev) ==
    [dir EXCEPT !.head = ResolveRev(rev, dir.main),
                !.onBranch = (rev.kind = "branch")]

\* git pull --ff-only origin <rev>: <rev> is looked up on the remote, which
\* knows branch names, tag names and full object ids, not abbreviated ids
GitPullOk(dir, rev, net) == IsRepo(dir) /\ net /\ rev # RevShort

\* the fetched commit is merged into HEAD fast-forward (history is linear, so
\* an older fetched commit is "already up to date")
GitPull(dir, rev, remoteMain) ==
    LET fetched == ResolveRev(rev, remoteMain)
        head == Max(dir.head, fetched)
    IN  [dir EXCEPT !.head = head,
                    !.main = IF dir.onBranch THEN head ELSE @]

\* git clone <url> <dest>: the destination must not exist yet
GitCloneOk(dest, net) == ~Exists(dest) /\ net

GitClone(url, remoteMain) == Checkout(RemoteOf(url), remoteMain, remoteMain, TRUE)

(* ------------------------------------------------------------------ *)
(* _run_git and clone_or_update_repo                                   *)
(* ------------------------------------------------------------------ *)

\* raw_url: strip a trailing "/", append ".git" unless already there
NormalizeUrl(url) == [url EXCEPT !.trail = ".git"]

\* the URLs of owner "o1" start with "https://github.com/", those of owner
\* "o2" with "https://git.example.org/"
OnGitHub(url) == url.owner = "o1"

\* _with_github_token lines 187-209: "https://github.com/..." becomes
\* "https://<token>@github.com/..." when a token is set; any other URL is
\* returned as it is
WithGithubToken(url) ==
    [owner |-> url.owner, repo |-> url.repo, trail |-> url.trail,
     token |-> env.token /\ OnGitHub(url)]

\* clone_url: the remote the clone URL names is that of repo_url
CloneUrl(url) == WithGithubToken(NormalizeUrl(url))

\* what git writes to stderr when a command that talks to a remote fails: the
\* message names the remote's URL, which git (before 2.22) prints as given
\* and (since) prints with the credentials taken out. TRUE: the text holds
\* the token.
GitStderrHasToken(secret) == IF secret THEN BOOLEAN ELSE {FALSE}

\* PodmanRuntimeError(message, stdout=stdout, stderr=stderr, exit_code=...):
\* the text of git's stderr goes into the error as it is
RaiseGit(c, what, code, has_token) ==
    [Raise(c, "PodmanRuntimeError", what, code) EXCEPT !.stderr_has_token = has_token]

\* repo_name: the last path segment of raw_url without ".git"
RepoName(url) ==
    LET raw == NormalizeUrl(url)
    IN  IF raw.trail = ".git" THEN raw.repo ELSE raw.repo \o raw.trail

\* repo_path = base_dir / repo_name
RepoPath(base, url) == <<base, RepoName(url)>>

\* the three pre-spawn outcomes of _run_git, else "spawn"
RunGitPrecheck(c) ==
    IF ~Exists(c.path) THEN "cwd_missing"
    ELSE IF ~env.gitBinUsable THEN "git_unusable"
    ELSE "spawn"

RunGitRaise(c, check) ==
    IF check = "cwd_missing"
    THEN Raise(c, "PodmanRuntimeError", "git_cwd_missing", -1)
    ELSE Raise(c, "PodmanRuntimeError", "git_not_usable", -1)

\* _run_git lines 174-184: a non-zero exit of git is raised
RunGitIgnoresExit(ok) == FALSE
RunGitRaises(ok) == ~ok

\* where a call goes once its staging has returned repo_path
AfterStage(c) ==
    IF c.op = "stage" THEN Return(c, [kind |-> "path", path |-> c.path])
    ELSE [c EXCEPT !.pc = "staged"]

\* history: the commit HEAD is at when staging returns, and the commit the
\* requested revision names on the remote at that moment
Snapshot(c, dir) ==
    [c EXCEPT !.snap = [kind |-> "head", head |-> dir.head,
                       want |-> ResolveRev(c.rev, tip[RemoteOf(c.url)])]]

\* lines 227-245: mkdir base_dir, compute repo_path, test repo_path.exists()
StageCheck(p) ==
    /\ calls[p].pc = "stage"
    /\ LET c == calls[p]
           path == RepoPath(c.base, c.url)
           made == IF Exists(<<c.base>>) THEN {} ELSE {<<c.base>>}
       IN  /\ fs' = [d \in DOMAIN fs \cup made |-> IF d \in DOMAIN fs THEN fs[d] ELSE PlainDir]
           /\ calls' = [calls EXCEPT ![p] =
                  [c EXCEPT !.path = path,
                            !.touched = @ \cup made,
                            !.round = IF ~Exists(path) THEN 1
                                      ELSE IF @ = 2 THEN 2 ELSE 0,
                            !.pc = IF Exists(path) THEN "fetch" ELSE "clone"]]
    /\ UNCHANGED <<tip, containers, env, started, adapters, base_adapters>>

\* line 247: _run_git(["fetch", "origin"], cwd=repo_path)
StageFetch(p) ==
    /\ calls[p].pc = "fetch"
    /\ LET c == calls[p]
           check == RunGitPrecheck(c)
       IN  IF check # "spawn"
           THEN calls' = [calls EXCEPT ![p] = RunGitRaise(c, check)]
           ELSE \E net \in BOOLEAN :
                  LET i == Issue([c EXCEPT !.fault = @ \/ ~net],
                                 GitCmd("fetch", c.path, NoRev))
                  IN  IF ~RunGitRaises(GitFetchOk(fs[c.path], net))
                      THEN calls' = [calls EXCEPT ![p] = [i EXCEPT !.pc = "checkout_u"]]
                      ELSE \E t \in GitStderrHasToken(fs[c.path].secret) :
                             calls' = [calls EXCEPT ![p] = RaiseGit(i, "git_failed", 128, t)]
    /\ UNCHANGED <<fs, tip, containers, env, started, adapters, base_adapters>>

\* lines 248 and 273: _run_git(["checkout", revision], cwd=repo_path)
StageCheckout(p) ==
    /\ calls[p].pc \in {"checkout_u", "checkout_c"}
    /\ LET c == calls[p]
           check == RunGitPrecheck(c)
       IN  IF check # "spawn"
           THEN /\ calls' = [calls EXCEPT ![p] = RunGitRaise(c, check)]
                /\ fs' = fs
           ELSE LET i == Issue(c, GitCmd("checkout", c.path, c.rev))
                IN  IF ~RunGitRaises(GitCheckoutOk(fs[c.path], c.rev))
                    THEN /\ fs' = [fs EXCEPT ![c.path] = GitCheckout(@, c.rev)]
                         /\ calls' = [calls EXCEPT ![p] =
                                IF c.pc = "checkout_u"
                                THEN [i EXCEPT !.pc = "pull", !.touched = @ \cup {c.path}]
                                ELSE AfterStage(Snapshot(
                                         [i EXCEPT !.touched = @ \cup {c.path}],
                                         GitCheckout(fs[c.path], c.rev)))]
                    ELSE /\ fs' = fs
                         /\ calls' = [calls EXCEPT ![p] =
                                Raise(i, "PodmanRuntimeError", "git_failed", 128)]
    /\ UNCHANGED <<tip, containers, env, started, adapters, base_adapters>>

\* line 249: _run_git(["pull", "--ff-only", "origin", revision], cwd=repo_path)
StagePull(p) ==
    /\ calls[p].pc = "pull"
    /\ LET c == calls[p]
           check == RunGitPrecheck(c)
       IN  IF check # "spawn"
           THEN /\ calls' = [calls EXCEPT ![p] = RunGitRaise(c, check)]
                /\ fs' = fs
           ELSE \E net \in BOOLEAN :
                  LET i == Issue([c EXCEPT !.fault = @ \/ ~net],
                                 GitCmd("pull", c.path, c.rev))
                      dir == fs[c.path]
                  IN  IF ~RunGitRaises(GitPullOk(dir, c.rev, net))
                      THEN /\ fs' = [fs EXCEPT ![c.path] = GitPull(@, c.rev, tip[dir.origin])]
                           /\ calls' = [calls EXCEPT ![p] =
                                  AfterStage(Snapshot(
                                      [i EXCEPT !.touched = @ \cup {c.path}],
                                      GitPull(dir, c.rev, tip[dir.origin])))]
                      ELSE /\ fs' = fs
                           /\ \E t \in GitStderrHasToken(dir.secret) :
                                 calls' = [calls EXCEPT ![p] = RaiseGit(i, "git_failed", 1, t)]
    /\ UNCHANGED <<tip, containers, env, started, adapters, base_adapters>>

\* lines 252-270: "git" clone clone_url repo_path, spawned without _run_git
StageClone(p) ==
    /\ calls[p].pc = "clone"
    /\ LET c == calls[p]
       IN  IF ~env.gitOnPath
           THEN /\ calls' = [calls EXCEPT ![p] = Raise(c, "FileNotFoundError", "git", -1)]
                /\ fs' = fs
           ELSE \E net \in BOOLEAN :
                  LET url == CloneUrl(c.url)
                      i == Issue([c EXCEPT !.fault = @ \/ ~net, !.clone_url = url],
                                 GitCmd("clone", c.path, NoRev))
                  IN  IF GitCloneOk(c.path, net)
                      THEN /\ fs' = [d \in DOMAIN fs \cup {c.path} |->
                                       IF d = c.path
                                       THEN [GitClone(url, tip[RemoteOf(url)])
                                                EXCEPT !.label = c.label,
                                                       !.secret = url.token]
                                       ELSE fs[d]]
                           /\ calls' = [calls EXCEPT ![p] =
                                  [i EXCEPT !.pc = "checkout_c", !.touched = @ \cup {c.path}]]
                      ELSE /\ fs' = fs
                           /\ \E t \in GitStderrHasToken(url.token) :
                                 calls' = [calls EXCEPT ![p] =
                                     RaiseGit(i, "git_clone_failed", 128, t)]
    /\ UNCHANGED <<tip, containers, env, started, adapters, base_adapters>>

\* a direct call of clone_or_update_repo(repo_url, base_dir, revision)
StartStage(p) ==
    /\ calls[p].pc = "idle"
    /\ started < MaxCalls
    /\ \E url \in Urls, rev \in Revisions :
         calls' = [calls EXCEPT ![p] =
             [Idle EXCEPT !.op = "stage", !.pc = "stage", !.url = url,
                          !.base = WorkspaceRoot, !.rev = rev]]
    /\ started' = started + 1
    /\ UNCHANGED <<fs, tip, containers, env, adapters, base_adapters>>

\* the caller stages the same (url, revision) again right after a first
\* call that cloned the repository afresh and returned
StageAgain(p) ==
    /\ calls[p].pc = "done"
    /\ calls[p].op = "stage"
    /\ calls[p].outcome = "returned"
    /\ calls[p].round = 1
    /\ started < MaxCalls
    /\ calls' = [calls EXCEPT ![p] =
           [Idle EXCEPT !.op = "stage", !.pc = "stage", !.url = calls[p].url,
                        !.base = calls[p].base, !.rev = calls[p].rev,
                        !.round = 2]]
    /\ started' = started + 1
    /\ UNCHANGED <<fs, tip, containers, env, adapters, base_adapters>>

\* the caller takes the result (or the exception) and leaves the engine
Finish(p) ==
    /\ calls[p].pc = "done"
    /\ calls' = [calls EXCEPT ![p] = Idle]
    /\ UNCHANGED <<fs, tip, containers, env, started, adapters, base_adapters>>

\* somebody pushes a commit to branch main of a remote, between two calls
Push(r) ==
    /\ \A p \in Procs : calls[p].pc \in {"idle", "done"}
    /\ tip[r] < MaxTip
    /\ tip' = [tip EXCEPT ![r] = @ + 1]
    /\ UNCHANGED <<calls, fs, containers, env, started, adapters, base_adapters>>


(* ------------------------------------------------------------------ *)
(* Command composition                                                 *)
(* ------------------------------------------------------------------ *)

RECURSIVE Join(_, _)
\* sep.join(words)
Join(words, sep) ==
    IF words = <<>> THEN ""
    ELSE IF Len(words) = 1 THEN words[1]
    ELSE words[1] \o sep \o Join(Tail(words), sep)

\* Python truthiness of a command: None, "" and [] are false
Truthy(cmd) ==
    /\ cmd.form # "none"
    /\ cmd.form = "shell" => cmd.text # ""
    /\ cmd.form = "argv" => cmd.words # <<>>

\* str(cmd): a string is itself, a list prints as its repr
PyStr(cmd) ==
    IF cmd.form = "shell" THEN cmd.text
    ELSE IF cmd.form = "argv"
    THEN "[" \o Join([i \in DOMAIN cmd.words |-> "'" \o cmd.words[i] \o "'"], ", ") \o "]"
    ELSE "None"

\* podman_runner.py lines 319-326: parts joined with " && "
JoinedCmd(a, root) ==
    LET build_cmd == build_command(a, root)
        test_cmd == test_command(a, root)
        parts == (IF Truthy(build_cmd) THEN <<PyStr(build_cmd)>> ELSE <<>>)
                 \o <<PyStr(test_cmd)>>
    IN  Join(parts, " && ")

\* podman_runtime.py _cmd_to_str: a list is joined with blanks
CmdToStr(cmd) ==
    IF cmd.form = "shell" THEN cmd.text ELSE Join(cmd.words, " ")

\* podman_runtime.py _build_test_shell_command
BuildTestShellCommand(a, root) ==
    LET build_cmd == build_command(a, root)
        test_cmd == test_command(a, root)
        build_str == IF Truthy(build_cmd) THEN CmdToStr(build_cmd) ELSE ""
        test_str == CmdToStr(test_cmd)
    IN  IF build_str # "" THEN build_str \o " && " \o test_str ELSE test_str

(* ------------------------------------------------------------------ *)
(* The container runtime and run_podman                                *)
(* ------------------------------------------------------------------ *)

\* what a foreground "run" can do: start the container, whose command exits
\* with some code, or fail to start it (unknown image, bad mount): exit 125
Started(rc) == [started |-> TRUE, rc |-> rc]
NotStarted == [started |-> FALSE, rc |-> 125]
RunOutcomes == {Started(0), Started(7), NotStarted}

PodmanRun(rm, detached, mounts, workdir, image, argv, name, ports) ==
    [tool |-> "podman", verb |-> "run", rm |-> rm, detached |-> detached,
     mounts |-> mounts, workdir |-> workdir, image |-> image, argv |-> argv,
     name |-> name, ports |-> ports]

\* what a foreground run leaves on the host: nothing when it carried --rm;
\* without it the container stays, exited, or (when it could not be started)
\* created or not there at all
LeftBehind(cmd, out) ==
    IF cmd.rm THEN {{}}
    ELSE IF out.started
    THEN {{[name |-> "", image |-> cmd.image, state |-> "exited",
            host_port |-> -1, internal_port |-> -1]}}
    ELSE {{}, {[name |-> "", image |-> cmd.image, state |-> "created",
                host_port |-> -1, internal_port |-> -1]}}

\* what the run a call has just issued, if it issued one, leaves on the host
LeftBehindBy(c) ==
    IF c.ran = NoResult THEN {{}} ELSE LeftBehind(c.cmds[Len(c.cmds)], c.ran)

RunPodmanNeverRaises(rc) == FALSE

\* run_podman lines 82-113 for a process that was spawned and exited with rc:
\* a non-zero exit is raised, a zero exit is returned
RunPodmanRaises(rc) == rc # 0

\* run_podman lines 82-99: the spawn raises FileNotFoundError when PODMAN_BIN is
\* not found, and also when cwd is given and does not exist
RunPodmanSpawns(cwd) == env.podmanOnPath /\ (cwd = NoPath \/ Exists(cwd))

PodmanResult(exit_code, image) ==
    [kind |-> "PodmanResult", exit_code |-> exit_code, container_image |-> image]

(* ------------------------------------------------------------------ *)
(* podman_runner.py: run_tests_for_implementation                      *)
(* ------------------------------------------------------------------ *)

MkDir(path) ==
    [d \in DOMAIN fs \cup {path} |-> IF d \in DOMAIN fs THEN fs[d] ELSE PlainDir]

Made(path) == IF Exists(path) THEN {} ELSE {path}

StartTest(p) ==
    /\ calls[p].pc = "idle"
    /\ started < MaxCalls
    /\ \E id \in ImplIds :
         calls' = [calls EXCEPT ![p] =
             [Idle EXCEPT !.op = "test", !.pc = "pre", !.impl = id]]
    /\ started' = started + 1
    /\ UNCHANGED <<fs, tip, containers, env, adapters, base_adapters>>

\* lines 290-314: the row, its fields, the adapter, the workspace root
TestPre(p) ==
    /\ calls[p].pc = "pre"
    /\ calls[p].op = "test"
    /\ LET c == calls[p]
       IN  IF ~HasRow(c.impl)
           THEN /\ calls' = [calls EXCEPT ![p] =
                       Raise(c, "PodmanRuntimeError", "impl_not_found", -1)]
                /\ fs' = fs
           ELSE LET impl == Impls[c.impl]
                IN  IF impl.repo_url = NoUrl
                    THEN /\ calls' = [calls EXCEPT ![p] =
                                Raise(c, "PodmanRuntimeError", "no_repo_url", -1)]
                         /\ fs' = fs
                    ELSE IF impl.language = <<>>
                    THEN /\ calls' = [calls EXCEPT ![p] =
                                Raise(c, "PodmanRuntimeError", "no_language", -1)]
                         /\ fs' = fs
                    ELSE IF ~HasAdapter(impl.language)
                    THEN /\ calls' = [calls EXCEPT ![p] =
                                Raise(c, "KeyError", "no_adapter", -1)]
                         /\ fs' = fs
                    ELSE /\ fs' = MkDir(<<WorkspaceRoot>>)
                         /\ calls' = [calls EXCEPT ![p] =
                                [c EXCEPT !.pc = "stage", !.url = impl.repo_url,
                                          !.base = WorkspaceRoot,
                                          !.label = ImplLabel(c.impl),
                                          !.rev = RevisionOrMain(impl),
                                          !.touched = @ \cup Made(<<WorkspaceRoot>>)]]
    /\ UNCHANGED <<tip, containers, env, started, adapters, base_adapters>>

\* the run_podman call of an orchestrator and its except clause: the exception
\* is re-raised with the same exit code, a returned result becomes a PodmanResult
RunAndWrap(c, cmd, image) ==
    IF ~RunPodmanSpawns(NoPath)
    THEN {Raise(c, "PodmanRuntimeError", "runtime_not_found", -1)}
    ELSE { LET i == Issue([c EXCEPT !.ran = out], cmd)
           IN  IF RunPodmanRaises(out.rc)
               THEN Raise(i, "PodmanRuntimeError", "podman_failed", out.rc)
               ELSE Return(i, PodmanResult(out.rc, image))
           : out \in RunOutcomes }

\* lines 316-361; head1 is history: the commit HEAD of the mounted workspace
\* is at when the container is started
TestRun(p) ==
    /\ calls[p].pc = "staged"
    /\ calls[p].op = "test"
    /\ LET c == calls[p]
           adapter == get_adapter(Impls[c.impl].language)
           image == adapter.docker_image
           full_args == PodmanRun(TRUE, FALSE, <<<<c.path, "/code">>>>, "/code", image,
                                  <<"/bin/sh", "-lc", JoinedCmd(adapter, "/code")>>, "", "")
       IN  \E next \in RunAndWrap([c EXCEPT !.head1 = fs[c.path].head], full_args, image) :
             /\ calls' = [calls EXCEPT ![p] = next]
             /\ \E left \in LeftBehindBy(next) : containers' = containers \cup left
    /\ UNCHANGED <<fs, tip, env, started, adapters, base_adapters>>

(* ------------------------------------------------------------------ *)
(* podman_runner.py: run_legacy_with_harness                           *)
(* ------------------------------------------------------------------ *)

\* (behavior_id, contract_id) pairs callers pass; contract_id 0 stands for None
ContractContexts == {<<11, 21>>, <<12, 0>>}

StartPaired(p) ==
    /\ calls[p].pc = "idle"
    /\ started < MaxCalls
    /\ \E legacy \in ImplIds, harness \in ImplIds, ctx \in ContractContexts :
         calls' = [calls EXCEPT ![p] =
             [Idle EXCEPT !.op = "paired", !.pc = "pre", !.impl = legacy,
                          !.impl2 = harness, !.behavior_id = ctx[1],
                          !.contract_id = ctx[2]]]
    /\ started' = started + 1
    /\ UNCHANGED <<fs, tip, containers, env, adapters, base_adapters>>

\* the language comparison of line 396 left out
PairedPreconditionNoLanguageCheck(legacy, harness) ==
    IF ~HasRow(legacy) THEN "legacy_not_found"
    ELSE IF ~HasRow(harness) THEN "harness_not_found"
    ELSE IF Impls[legacy].repo_url = NoUrl THEN "legacy_no_repo_url"
    ELSE IF Impls[harness].repo_url = NoUrl THEN "harness_no_repo_url"
    ELSE IF ~HasAdapter(Impls[legacy].language) THEN "no_adapter"
    ELSE "ok"

\* lines 380-407: the precondition that fails first, or "ok"
PairedPrecondition(legacy, harness) ==
    IF ~HasRow(legacy) THEN "legacy_not_found"
    ELSE IF ~HasRow(harness) THEN "harness_not_found"
    ELSE IF Impls[legacy].language # Impls[harness].language THEN "language_mismatch"
    ELSE IF Impls[legacy].repo_url = NoUrl THEN "legacy_no_repo_url"
    ELSE IF Impls[harness].repo_url = NoUrl THEN "harness_no_repo_url"
    ELSE IF ~HasAdapter(Impls[legacy].language) THEN "no_adapter"
    ELSE "ok"

\* lines 380-416: preconditions, workspace root, staging of the legacy repo
PairedPre(p) ==
    /\ calls[p].pc = "pre"
    /\ calls[p].op = "paired"
    /\ LET c == calls[p]
           pre == PairedPrecondition(c.impl, c.impl2)
       IN  IF pre = "ok"
           THEN /\ fs' = MkDir(<<WorkspaceRoot>>)
                /\ calls' = [calls EXCEPT ![p] =
                       [c EXCEPT !.pc = "stage", !.phase = 1,
                                 !.label = ImplLabel(c.impl),
                                 !.url = Impls[c.impl].repo_url,
                                 !.base = WorkspaceRoot,
                                 !.rev = RevisionOrMain(Impls[c.impl]),
                                 !.touched = @ \cup Made(<<WorkspaceRoot>>)]]
           ELSE /\ fs' = fs
                /\ calls' = [calls EXCEPT ![p] =
                       Raise(c, IF pre = "no_adapter" THEN "KeyError"
                                ELSE "PodmanRuntimeError", pre, -1)]
    /\ UNCHANGED <<tip, containers, env, started, adapters, base_adapters>>

\* lines 417-421: the legacy repo is staged, the harness repo is staged next
PairedStageHarness(p) ==
    /\ calls[p].pc = "staged"
    /\ calls[p].op = "paired"
    /\ calls[p].phase = 1
    /\ LET c == calls[p]
       IN  calls' = [calls EXCEPT ![p] =
               [c EXCEPT !.pc = "stage", !.phase = 2, !.root1 = c.path,
                         !.head1 = fs[c.path].head,
                         !.label = ImplLabel(c.impl2),
                         !.url = Impls[c.impl2].repo_url,
                         !.rev = RevisionOrMain(Impls[c.impl2])]]
    /\ UNCHANGED <<fs, tip, containers, env, started, adapters, base_adapters>>

\* lines 424-428: what run_contract_test_command is called with
ContractArgsWithoutContract(c) ==
    [kind |-> "args", behavior_id |-> c.behavior_id, contract_id |-> 0,
     project_root |-> "/tests"]
ContractArgs(c) ==
    [kind |-> "args", behavior_id |-> c.behavior_id, contract_id |-> c.contract_id,
     project_root |-> "/tests"]

\* lines 423-464
PairedRun(p) ==
    /\ calls[p].pc = "staged"
    /\ calls[p].op = "paired"
    /\ calls[p].phase = 2
    /\ LET c == calls[p]
           adapter == get_adapter(Impls[c.impl].language)
           image == adapter.docker_image
           args == ContractArgs(c)
           test_cmd == run_contract_test_command(adapter, args.behavior_id,
                                                 args.contract_id, args.project_root)
           full_args == PodmanRun(TRUE, FALSE,
                                  <<<<c.root1, "/code">>, <<c.path, "/tests">>>>,
                                  "/tests", image,
                                  <<"/bin/sh", "-lc", PyStr(test_cmd)>>, "", "")
       IN  \E next \in RunAndWrap([c EXCEPT !.contract_args = args], full_args, image) :
             /\ calls' = [calls EXCEPT ![p] = next]
             /\ \E left \in LeftBehindBy(next) : containers' = containers \cup left
    /\ UNCHANGED <<fs, tip, env, started, adapters, base_adapters>>

(* ------------------------------------------------------------------ *)
(* runtime/podman_runner.py: PodmanRunner.run                          *)
(* ------------------------------------------------------------------ *)

VolumeMount(host_path, container_path, read_only) ==
    [host_path |-> host_path, container_path |-> container_path,
     read_only |-> read_only]

\* requests callers make: with and without a mount, remove left at its
\* default (TRUE) or switched off
EngineRequests ==
    { [image |-> "python:3.12-slim", command |-> <<"sh", "-lc", "run-tests">>,
       volumes |-> v, workdir |-> w, remove |-> r] :
         v \in { <<>>, <<VolumeMount(<<WorkspaceRoot, "a">>, "/code", FALSE)>> },
         w \in { "", "/code" }, r \in BOOLEAN }

\* lines 50-51: "--rm" is appended when remove is true
RemoveFlagDropped(remove) == FALSE
RemoveFlag(remove) == remove

\* lines 48-72: the argument vector
EngineCmd(req) ==
    PodmanRun(RemoveFlag(req.remove), FALSE,
              [i \in DOMAIN req.volumes |->
                  <<req.volumes[i].host_path, req.volumes[i].container_path>>],
              req.workdir, req.image, req.command, "", "")

ContainerRunResult(exit_code) == [kind |-> "ContainerRunResult", exit_code |-> exit_code]

\* lines 74-81: Popen, communicate, and the result for an exit code
EngineResult(c, rc) == Return(c, ContainerRunResult(rc))

StartEngineRun(p) ==
    /\ calls[p].pc = "idle"
    /\ started < MaxCalls
    /\ \E req \in EngineRequests :
         calls' = [calls EXCEPT ![p] =
             [Idle EXCEPT !.op = "engine_run", !.pc = "run",
                          !.snap = [kind |-> "request", remove |-> req.remove],
                          !.result = [kind |-> "request", req |-> req]]]
    /\ started' = started + 1
    /\ UNCHANGED <<fs, tip, containers, env, adapters, base_adapters>>

EngineRun(p) ==
    /\ calls[p].pc = "run"
    /\ calls[p].op = "engine_run"
    /\ LET c == calls[p]
           req == c.result.req
       IN  IF ~env.podmanOnPath
           THEN /\ calls' = [calls EXCEPT ![p] =
                       Raise([c EXCEPT !.result = NoResult], "FileNotFoundError", "podman", -1)]
                /\ containers' = containers
           ELSE \E out \in RunOutcomes :
                  /\ calls' = [calls EXCEPT ![p] =
                         EngineResult(Issue([c EXCEPT !.ran = out], EngineCmd(req)), out.rc)]
                  /\ \E left \in LeftBehind(EngineCmd(req), out) :
                        containers' = containers \cup left
    /\ UNCHANGED <<fs, tip, env, started, adapters, base_adapters>>

(* ------------------------------------------------------------------ *)
(* services/podman_runtime.py: the synchronous runners                 *)
(* ------------------------------------------------------------------ *)

PodmanRunResult(exit_code, image) ==
    [kind |-> "PodmanRunResult", exit_code |-> exit_code, container_image |-> image]

\* subprocess.run(cmd, check=False): the result for an exit code
RuntimeResult(c, rc, image) == Return(c, PodmanRunResult(rc, image))

\* _clone_repo_to_workspace: workspace_root / "runtime" / run_label
RuntimeTargetDir(root, run_label) == <<root, "runtime", run_label>>

\* git clone --branch <rev> --single-branch: <rev> must be a branch or a tag
GitCloneBranchOk(rev, net) == net /\ rev.kind \in {"branch", "tag"}

GitCloneBranch(url, rev, remoteMain) ==
    LET at == ResolveRev(rev, remoteMain)
    IN  Checkout(RemoteOf(url), at, at, rev.kind = "branch")

\* _git_clone_repo lines 51-75 on dest_dir: rmtree if it exists, mkdir, clone.
\* The set of possible (outcome, directory content) pairs.
GitCloneRepo(url, rev) ==
    IF ~env.gitOnPath THEN {<<"FileNotFoundError", PlainDir>>}
    ELSE { IF GitCloneBranchOk(rev, net)
           THEN <<"ok", GitCloneBranch(url, rev, tip[RemoteOf(url)])>>
           ELSE <<"git_clone_failed", PlainDir>> : net \in BOOLEAN }

PutDir(path, dir) ==
    [d \in DOMAIN fs \cup {path} |-> IF d = path THEN dir ELSE fs[d]]

StartTestRt(p) ==
    /\ calls[p].pc = "idle"
    /\ started < MaxCalls
    /\ \E id \in ImplIds :
         calls' = [calls EXCEPT ![p] =
             [Idle EXCEPT !.op = "test_rt", !.pc = "pre", !.impl = id]]
    /\ started' = started + 1
    /\ UNCHANGED <<fs, tip, containers, env, adapters, base_adapters>>

\* run_tests_for_implementation lines 132-152: the check that fails first
TestRtPrecondition(id) ==
    IF ~env.podmanOnPath THEN "runtime_not_found"
    ELSE IF ~HasRow(id) THEN "impl_not_found"
    ELSE IF Impls[id].repo_url = NoUrl \/ Impls[id].revision = NoRev
    THEN "missing_repo_url_or_revision"
    ELSE IF ~HasAdapter(Impls[id].language) THEN "no_adapter"
    ELSE "ok"

\* lines 132-162: checks, then the clone into runtime/impl_<id>
TestRtStage(p) ==
    /\ calls[p].pc = "pre"
    /\ calls[p].op = "test_rt"
    /\ LET c == calls[p]
           pre == TestRtPrecondition(c.impl)
       IN  IF pre # "ok"
           THEN /\ fs' = fs
                /\ calls' = [calls EXCEPT ![p] = Raise(c, "PodmanRuntimeError", pre, -1)]
           ELSE LET impl == Impls[c.impl]
                    dir == RuntimeTargetDir(WorkspaceRoot, ImplLabel(c.impl))
                IN  \E got \in GitCloneRepo(impl.repo_url, impl.revision) :
                      /\ fs' = PutDir(dir, [got[2] EXCEPT !.label = ImplLabel(c.impl)])
                      /\ LET i == Issue([c EXCEPT !.path = dir, !.touched = @ \cup {dir},
                                                  !.label = ImplLabel(c.impl),
                                                  !.url = impl.repo_url,
                                                  !.rev = impl.revision],
                                        GitCmd("clone", dir, impl.revision))
                         IN  calls' = [calls EXCEPT ![p] =
                                 IF got[1] = "ok" THEN [i EXCEPT !.pc = "staged"]
                                 ELSE IF got[1] = "FileNotFoundError"
                                 THEN Raise([c EXCEPT !.path = dir, !.touched = @ \cup {dir}],
                                            "FileNotFoundError", "git", -1)
                                 ELSE Raise(i, "PodmanRuntimeError", got[1], 128)]
    /\ UNCHANGED <<tip, containers, env, started, adapters, base_adapters>>

\* lines 164-208
TestRtRun(p) ==
    /\ calls[p].pc = "staged"
    /\ calls[p].op = "test_rt"
    /\ LET c == calls[p]
           adapter == get_adapter(Impls[c.impl].language)
           image == adapter.docker_image
           cmd == PodmanRun(TRUE, FALSE, <<<<c.path, "/workspace">>>>, "/workspace", image,
                            <<"sh", "-lc", BuildTestShellCommand(adapter, "/workspace")>>,
                            "", "")
       IN  \E out \in RunOutcomes :
             /\ calls' = [calls EXCEPT ![p] =
                    RuntimeResult(Issue([c EXCEPT !.ran = out], cmd), out.rc, image)]
             /\ \E left \in LeftBehind(cmd, out) : containers' = containers \cup left
    /\ UNCHANGED <<fs, tip, env, started, adapters, base_adapters>>

StartPairedRt(p) ==
    /\ calls[p].pc = "idle"
    /\ started < MaxCalls
    /\ \E legacy \in ImplIds, harness \in ImplIds :
         calls' = [calls EXCEPT ![p] =
             [Idle EXCEPT !.op = "paired_rt", !.pc = "pre", !.impl = legacy,
                          !.impl2 = harness]]
    /\ started' = started + 1
    /\ UNCHANGED <<fs, tip, containers, env, adapters, base_adapters>>

\* run_paired_legacy_and_harness lines 228-271: the check that fails first
PairedRtPrecondition(legacy, harness) ==
    IF ~env.podmanOnPath THEN "runtime_not_found"
    ELSE IF ~HasRow(legacy) THEN "legacy_not_found"
    ELSE IF ~HasRow(harness) THEN "harness_not_found"
    ELSE IF Impls[legacy].language # Impls[harness].language THEN "language_mismatch"
    ELSE IF Impls[legacy].repo_url = NoUrl \/ Impls[legacy].revision = NoRev
    THEN "legacy_missing_repo_url_or_revision"
    ELSE IF Impls[harness].repo_url = NoUrl \/ Impls[harness].revision = NoRev
    THEN "harness_missing_repo_url_or_revision"
    ELSE IF ~HasAdapter(Impls[legacy].language) THEN "no_adapter"
    ELSE "ok"

PairRoot(legacy, harness) ==
    <<WorkspaceRoot, "runtime_paired",
      "legacy_" \o ToString(legacy) \o "_h_" \o ToString(harness)>>

\* lines 228-283: checks, pair_root removed and recreated, the legacy clone
PairedRtStageCode(p) ==
    /\ calls[p].pc = "pre"
    /\ calls[p].op = "paired_rt"
    /\ LET c == calls[p]
           pre == PairedRtPrecondition(c.impl, c.impl2)
       IN  IF pre # "ok"
           THEN /\ fs' = fs
                /\ calls' = [calls EXCEPT ![p] = Raise(c, "PodmanRuntimeError", pre, -1)]
           ELSE LET legacy == Impls[c.impl]
                    pair_root == PairRoot(c.impl, c.impl2)
                    code_dir == Append(pair_root, "code")
                    tests_dir == Append(pair_root, "tests")
                IN  \E got \in GitCloneRepo(legacy.repo_url, legacy.revision) :
                      /\ fs' = [d \in (DOMAIN fs \ {tests_dir}) \cup {pair_root, code_dir} |->
                                  IF d = code_dir
                                  THEN [got[2] EXCEPT !.label = ImplLabel(c.impl)]
                                  ELSE IF d = pair_root THEN PlainDir ELSE fs[d]]
                      /\ LET t == [c EXCEPT !.root1 = code_dir, !.path = tests_dir,
                                            !.head1 = got[2].head,
                                            !.label = ImplLabel(c.impl2),
                                            !.touched = @ \cup {pair_root, code_dir}]
                             i == Issue(t, GitCmd("clone", code_dir, legacy.revision))
                         IN  calls' = [calls EXCEPT ![p] =
                                 IF got[1] = "ok" THEN [i EXCEPT !.pc = "stage2"]
                                 ELSE IF got[1] = "FileNotFoundError"
                                 THEN Raise(t, "FileNotFoundError", "git", -1)
                                 ELSE Raise(i, "PodmanRuntimeError", got[1], 128)]
    /\ UNCHANGED <<tip, containers, env, started, adapters, base_adapters>>

\* line 284: the harness clone
PairedRtStageTests(p) ==
    /\ calls[p].pc = "stage2"
    /\ calls[p].op = "paired_rt"
    /\ LET c == calls[p]
           harness == Impls[c.impl2]
       IN  \E got \in GitCloneRepo(harness.repo_url, harness.revision) :
             /\ fs' = PutDir(c.path, [got[2] EXCEPT !.label = ImplLabel(c.impl2)])
             /\ LET t == [c EXCEPT !.touched = @ \cup {c.path}]
                    i == Issue(t, GitCmd("clone", c.path, harness.revision))
                IN  calls' = [calls EXCEPT ![p] =
                        IF got[1] = "ok" THEN [i EXCEPT !.pc = "staged"]
                        ELSE IF got[1] = "FileNotFoundError"
                        THEN Raise(t, "FileNotFoundError", "git", -1)
                        ELSE Raise(i, "PodmanRuntimeError", got[1], 128)]
    /\ UNCHANGED <<tip, containers, env, started, adapters, base_adapters>>

\* lines 286-338; contract_id is passed as None
PairedRtRun(p) ==
    /\ calls[p].pc = "staged"
    /\ calls[p].op = "paired_rt"
    /\ LET c == calls[p]
           adapter == get_adapter(Impls[c.impl].language)
           image == adapter.docker_image
           args == [kind |-> "args", behavior_id |-> Impls[c.impl].behavior_id,
                    contract_id |-> 0, project_root |-> "/tests"]
           inner_cmd == run_contract_test_command(adapter, args.behavior_id,
                                                  args.contract_id, args.project_root)
           cmd == PodmanRun(TRUE, FALSE,
                            <<<<c.root1, "/code">>, <<c.path, "/tests">>>>, "/tests",
                            image, <<"sh", "-lc", CmdToStr(inner_cmd)>>, "", "")
       IN  \E out \in RunOutcomes :
             /\ calls' = [calls EXCEPT ![p] =
                    RuntimeResult(Issue([c EXCEPT !.ran = out, !.contract_args = args], cmd),
                                  out.rc, image)]
             /\ \E left \in LeftBehind(cmd, out) : containers' = containers \cup left
    /\ UNCHANGED <<fs, tip, env, started, adapters, base_adapters>>

(* ------------------------------------------------------------------ *)
(* Claims about the test orchestrators (SpecTest)                      *)
(* ------------------------------------------------------------------ *)

Done(p) == calls[p].pc = "done"

\* the call's container command was spawned and the runtime reported `ran`
Ran(p) == calls[p].ran # NoResult

TestOps == {"test", "paired"}
RuntimeTestOps == {"test_rt", "paired_rt"}

\* C1: whenever the container of a single-target or paired test started and
\* its command exited with code c (zero or not), the orchestrator returns a
\* result whose exit_code is c and raises nothing.
C1_ExitCodeIsReturned ==
    \A p \in Procs :
        (Done(p) /\ calls[p].op \in TestOps /\ Ran(p) /\ calls[p].ran.started)
            => /\ calls[p].outcome = "returned"
               /\ calls[p].result.exit_code = calls[p].ran.rc

\* C2: whenever the runtime could not start the container (unknown image,
\* container fails to start), the engine's run and the orchestrators raise;
\* none of them returns a result for that attempt.
C2_StartFailureIsRaised ==
    \A p \in Procs :
        (Done(p) /\ Ran(p) /\ ~calls[p].ran.started)
            => calls[p].outcome = "raised"

\* a paired call whose two rows exist and declare different languages
LanguagesDiffer(p) ==
    /\ calls[p].op \in {"paired", "paired_rt"}
    /\ HasRow(calls[p].impl) /\ HasRow(calls[p].impl2)
    /\ Impls[calls[p].impl].language # Impls[calls[p].impl2].language

\* C6: a paired test whose targets declare different languages ends by raising
\* the module's error before staging: it has issued no git and no container
\* command and has created, deleted or changed no directory. The error is the
\* language mismatch (in podman_runtime.py the runtime-binary check comes
\* first and is the one raised when that binary is absent).
C6_MismatchRaisesBeforeStaging ==
    \A p \in Procs :
        LanguagesDiffer(p) =>
            /\ calls[p].pc \in {"pre", "done"}
            /\ calls[p].cmds = <<>>
            /\ calls[p].touched = {}
            /\ Done(p) =>
                 /\ calls[p].outcome = "raised"
                 /\ calls[p].err.type = "PodmanRuntimeError"
                 /\ calls[p].err.what \in
                      IF calls[p].op = "paired" \/ env.podmanOnPath
                      THEN {"language_mismatch"}
                      ELSE {"runtime_not_found"}

\* a mismatched paired call of each revision has ended
C6_Witness ==
    /\ Done("p1")
    /\ LanguagesDiffer("p1")
    /\ calls["p1"].err.what = "language_mismatch"
    /\ calls["p1"].op = "paired"
    /\ fs # <<>>


(* ------------------------------------------------------------------ *)
(* Claims about the stager                                             *)
(* ------------------------------------------------------------------ *)

\* between the existence test of repo_path and the return of the path
GitSteps == {"fetch", "checkout_u", "pull", "clone", "checkout_c"}
InGitSteps(p) == calls[p].pc \in GitSteps

\* C3: two concurrent stage calls that resolve to the same workspace
\* directory are serialized: never are both of them between their existence
\* check and the end of their last git step on that directory.
C3_SameDirectoryIsSerialized ==
    \A p, q \in Procs :
        (p # q /\ InGitSteps(p) /\ InGitSteps(q))
            => calls[p].path # calls[q].path

\* C4: the workspaces of different labels are isolated: a call staging for
\* one label (an implementation id) never works in a directory that a call
\* for another label created.
C4_LabelsAreIsolated ==
    \A p \in Procs :
        (/\ calls[p].label # ""
         /\ calls[p].pc \in (GitSteps \cup {"staged"})
         /\ Exists(calls[p].path))
            => fs[calls[p].path].label = calls[p].label

ToolsPresent == env.gitBinUsable /\ env.gitOnPath

\* C5: staging the same (url, revision) twice in sequence succeeds both times
\* (given the git binary and the network), and each time the workspace HEAD
\* is at the commit the revision names, for a branch, a tag and a commit id.
C5_RestagingIsIdempotent ==
    \A p \in Procs :
        (/\ Done(p)
         /\ calls[p].op = "stage"
         /\ calls[p].round \in {1, 2}
         /\ ~calls[p].fault
         /\ ToolsPresent)
            => /\ calls[p].outcome = "returned"
               /\ calls[p].snap.head = calls[p].snap.want


(* ------------------------------------------------------------------ *)
(* service_deployer.py: deploy_behavior_service                        *)
(* ------------------------------------------------------------------ *)

BasePort == 18000
PerlInternalPort == 5000
PythonInternalPort == 8000

\* host ports a caller passes; -1 stands for None
HostPorts == {8080, 18001}

EndsWith(s, suffix) ==
    /\ Len(s) >= Len(suffix)
    /\ SubSeq(s, Len(s) - Len(suffix) + 1, Len(s)) = suffix

\* language = (impl.language or "").lower()
DeployLanguage(row) == Lower(row.language)

\* f"mlbe-svc-{language}-impl-{implementation_id}"
ImageName(language, id) ==
    "mlbe-svc-" \o Join(language, "") \o "-impl-" \o ToString(id)

ContainerNameShared(id) == "mlbe-svc"

\* f"mlbe-svc-{implementation_id}"
ContainerName(id) == "mlbe-svc-" \o ToString(id)

InternalPort(language) ==
    IF language = Perl THEN PerlInternalPort ELSE PythonInternalPort

\* lines 269-271: the caller's port, or 18000 + id when there is none
HostPortIgnoringCaller(host_port, id) == BasePort + id
HostPort(host_port, id) == IF host_port = -1 THEN BasePort + id ELSE host_port

\* f"http://localhost:{host_port}"
ServiceUrl(host_port) == "http://localhost:" \o ToString(host_port)

\* f"{host_port}:{internal_port}"
PortMapping(host_port, internal_port) ==
    ToString(host_port) \o ":" \o ToString(internal_port)

PodmanBuild(image, cwd) ==
    [tool |-> "podman", verb |-> "build", image |-> image, cwd |-> cwd]
PodmanRm(name) == [tool |-> "podman", verb |-> "rm", force |-> TRUE, name |-> name]

Container(name, image, state, host_port, internal_port) ==
    [name |-> name, image |-> image, state |-> state,
     host_port |-> host_port, internal_port |-> internal_port]

Named(name) == {k \in containers : k.name = name}

ServiceDeploymentResult(id, image, name, internal_port, host_port) ==
    [kind |-> "ServiceDeploymentResult", implementation_id |-> id, image |-> image,
     container_name |-> name, internal_port |-> internal_port,
     host_port |-> host_port, url |-> ServiceUrl(host_port)]

\* a call of deploy_behavior_service(db, implementation_id, host_port);
\* round is history: 2 when a container of this implementation is running
StartDeploy(p) ==
    /\ calls[p].pc = "idle"
    /\ started < MaxCalls
    /\ \E id \in ImplIds, host_port \in {-1} \cup HostPorts :
         calls' = [calls EXCEPT ![p] =
             [Idle EXCEPT !.op = "deploy", !.pc = "pre", !.impl = id,
                          !.host_port = host_port,
                          !.round = IF \E k \in Named(ContainerName(id)) :
                                          k.state = "running"
                                    THEN 2 ELSE 1]]
    /\ started' = started + 1
    /\ UNCHANGED <<fs, tip, containers, env, adapters, base_adapters>>

\* the implementations two callers deploy at the same time: a Python and a
\* Perl service
ConcurrentDeployIds == {1, 3}

\* a call of deploy_behavior_service made while another may be in progress
StartDeployConc(p) ==
    /\ calls[p].pc = "idle"
    /\ started < MaxCalls
    /\ \E id \in ConcurrentDeployIds, host_port \in {-1} \cup HostPorts :
         calls' = [calls EXCEPT ![p] =
             [Idle EXCEPT !.op = "deploy", !.pc = "pre", !.impl = id,
                          !.host_port = host_port,
                          !.round = IF \E k \in Named(ContainerName(id)) :
                                          k.state = "running"
                                    THEN 2 ELSE 1]]
    /\ started' = started + 1
    /\ UNCHANGED <<fs, tip, containers, env, adapters, base_adapters>>

\* lines 188-218: the row, its repo_url, its language, the workspace root
DeployPre(p) ==
    /\ calls[p].pc = "pre"
    /\ calls[p].op = "deploy"
    /\ LET c == calls[p]
       IN  IF ~HasRow(c.impl)
           THEN /\ calls' = [calls EXCEPT ![p] =
                       Raise(c, "ServiceDeploymentError", "impl_not_found", -1)]
                /\ fs' = fs
           ELSE LET impl == Impls[c.impl]
                IN  IF impl.repo_url = NoUrl
                    THEN /\ calls' = [calls EXCEPT ![p] =
                                Raise(c, "ServiceDeploymentError", "no_repo_url", -1)]
                         /\ fs' = fs
                    ELSE IF DeployLanguage(impl) \notin {Perl, Python}
                    THEN /\ calls' = [calls EXCEPT ![p] =
                                Raise(c, "ServiceDeploymentError", "unsupported_language", -1)]
                         /\ fs' = fs
                    ELSE /\ fs' = MkDir(<<ServiceWorkspaceRoot>>)
                         /\ calls' = [calls EXCEPT ![p] =
                                [c EXCEPT !.pc = "stage", !.url = impl.repo_url,
                                          !.base = ServiceWorkspaceRoot,
                                          !.label = ImplLabel(c.impl),
                                          !.rev = RevisionOrMain(impl),
                                          !.touched = @ \cup Made(<<ServiceWorkspaceRoot>>)]]
    /\ UNCHANGED <<tip, containers, env, started, adapters, base_adapters>>

\* what "podman build" can do: exit 0 with the image built, or fail
BuildOutcomes == {0, 1}

\* lines 220-263: the .cgi check, app.psgi and Dockerfile written into the
\* checkout, the image built with the checkout as working directory
DeployBuild(p) ==
    /\ calls[p].pc = "staged"
    /\ calls[p].op = "deploy"
    /\ LET c == calls[p]
           impl == Impls[c.impl]
           language == DeployLanguage(impl)
           image_name == ImageName(language, c.impl)
           written == IF language = Perl
                      THEN {Append(c.path, "app.psgi"), Append(c.path, "Dockerfile")}
                      ELSE {Append(c.path, "Dockerfile")}
           w == [c EXCEPT !.touched = @ \cup written]
       IN  IF language = Perl /\ ~EndsWith(impl.file_path, ".cgi")
           THEN calls' = [calls EXCEPT ![p] =
                    Raise(c, "ServiceDeploymentError", "not_a_cgi_script", -1)]
           ELSE IF ~RunPodmanSpawns(c.path)
           THEN calls' = [calls EXCEPT ![p] =
                    Raise(w, "ServiceDeploymentError", "image_build_failed", -1)]
           ELSE \E rc \in BuildOutcomes :
                  LET i == Issue([w EXCEPT !.build = [kind |-> "build", rc |-> rc]],
                                 PodmanBuild(image_name, c.path))
                  IN  calls' = [calls EXCEPT ![p] =
                          IF RunPodmanRaises(rc)
                          THEN Raise(i, "ServiceDeploymentError", "image_build_failed", rc)
                          ELSE [i EXCEPT !.pc = "rm"]]
    /\ UNCHANGED <<fs, tip, containers, env, started, adapters, base_adapters>>

\* what "podman rm -f <name>" can do. With a container of that name: remove
\* it and exit 0, or fail and leave it. Without one: exit 1 ("no such
\* container"), or exit 0 on a runtime whose --force ignores a missing container
RmRemoved == [kind |-> "rm", found |-> TRUE, removed |-> TRUE, rc |-> 0]
RmFailed == [kind |-> "rm", found |-> TRUE, removed |-> FALSE, rc |-> 125]
RmNotFound(rc) == [kind |-> "rm", found |-> FALSE, removed |-> FALSE, rc |-> rc]
RmOutcomes(name) ==
    IF Named(name) # {} THEN {RmRemoved, RmFailed} ELSE {RmNotFound(1), RmNotFound(0)}

\* lines 273-278: "except PodmanRuntimeError: pass"
AfterRemovePropagating(c, raised, rc) ==
    IF raised THEN Raise(c, "PodmanRuntimeError", "podman_failed", rc)
    ELSE [c EXCEPT !.pc = "run"]
AfterRemove(c, raised, rc) == [c EXCEPT !.pc = "run"]

\* lines 266-278
DeployRemove(p) ==
    /\ calls[p].pc = "rm"
    /\ calls[p].op = "deploy"
    /\ LET c == calls[p]
           container_name == ContainerName(c.impl)
       IN  IF ~RunPodmanSpawns(NoPath)
           THEN /\ calls' = [calls EXCEPT ![p] = AfterRemove(c, TRUE, -1)]
                /\ containers' = containers
           ELSE \E out \in RmOutcomes(container_name) :
                  /\ containers' = IF out.removed
                                   THEN containers \ Named(container_name)
                                   ELSE containers
                  /\ calls' = [calls EXCEPT ![p] =
                         AfterRemove(Issue([c EXCEPT !.removal = out], PodmanRm(container_name)),
                                     RunPodmanRaises(out.rc), out.rc)]
    /\ UNCHANGED <<fs, tip, env, started, adapters, base_adapters>>

\* what "podman run -d -p h:i --name n image" can do. The name is taken: exit
\* 125, nothing created. The host port is bound by a running container: the
\* container is created but cannot start. Otherwise it starts, or fails with
\* or without the container left behind in state "created"
DetachedOutcomes(name, host_port) ==
    IF Named(name) # {} THEN {"name_in_use"}
    ELSE IF \E k \in containers : k.state = "running" /\ k.host_port = host_port
    THEN {"created"}
    ELSE {"running", "created", "failed"}

\* lines 280-312
DeployRun(p) ==
    /\ calls[p].pc = "run"
    /\ calls[p].op = "deploy"
    /\ LET c == calls[p]
           language == DeployLanguage(Impls[c.impl])
           image_name == ImageName(language, c.impl)
           container_name == ContainerName(c.impl)
           internal_port == InternalPort(language)
           host_port == HostPort(c.host_port, c.impl)
           run_args == PodmanRun(FALSE, TRUE, <<>>, "", image_name, <<>>, container_name,
                                 PortMapping(host_port, internal_port))
       IN  IF ~RunPodmanSpawns(NoPath)
           THEN /\ calls' = [calls EXCEPT ![p] =
                       Raise(c, "ServiceDeploymentError", "container_run_failed", -1)]
                /\ containers' = containers
           ELSE \E out \in DetachedOutcomes(container_name, host_port) :
                  LET i == Issue(c, run_args)
                  IN  /\ containers' =
                            IF out \in {"running", "created"}
                            THEN containers \cup
                                 {Container(container_name, image_name, out,
                                            host_port, internal_port)}
                            ELSE containers
                      /\ calls' = [calls EXCEPT ![p] =
                            IF out = "running"
                            THEN Return(i, ServiceDeploymentResult(c.impl, image_name,
                                            container_name, internal_port, host_port))
                            ELSE Raise(i, "ServiceDeploymentError",
                                       "container_run_failed", 125)]
    /\ UNCHANGED <<fs, tip, env, started, adapters, base_adapters>>

(* ------------------------------------------------------------------ *)
(* adapters/__init__.py: the registry in use (SpecRegistry)            *)
(* ------------------------------------------------------------------ *)

\* adapters a caller may register after import; names are ASCII language
\* identifiers in any letter case, and a later registration under the same
\* lowercased name replaces the earlier one
Registrable ==
    { Profile(<<"R", "u", "b", "y">>, "ruby:3", NoCmd, Shell("rake test")),
      Profile(<<"r", "u", "b", "y">>, "ruby:2", NoCmd, Shell("rake")),
      Profile(<<"P", "E", "R", "L">>, "perl:5.40", NoCmd, Shell("prove")) }

\* names callers look up
LookupNames ==
    { Python, PythonCap, Upper(Python), Perl, Upper(Perl), <<"P", "e", "r", "L">>,
      Ruby, Upper(Ruby), <<"r", "U", "b", "y">>, <<"l", "u", "a">> }

\* register_adapter(adapter)
RegisterAdapter(a) ==
    /\ adapters' = RegisterIn(adapters, a)
    /\ UNCHANGED <<calls, fs, tip, containers, env, started, base_adapters>>

\* adapters/__init__.py get_adapter lines 47-51: the adapter under
\* language.lower(), or KeyError
GetAdapterOrDefault(c, language) ==
    IF HasAdapter(language)
    THEN Return(c, [kind |-> "adapter", adapter |-> get_adapter(language)])
    ELSE Return(c, [kind |-> "adapter", adapter |-> python_adapter])
GetAdapterOutcome(c, language) ==
    IF HasAdapter(language)
    THEN Return(c, [kind |-> "adapter", adapter |-> get_adapter(language)])
    ELSE Raise(c, "KeyError", "no_adapter", -1)

\* a call of get_adapter(language)
Lookup(p) ==
    /\ calls[p].pc = "idle"
    /\ \E language \in LookupNames :
         calls' = [calls EXCEPT ![p] =
             GetAdapterOutcome([Idle EXCEPT !.op = "lookup", !.language = language],
                               language)]
    /\ UNCHANGED <<fs, tip, containers, env, started, adapters, base_adapters>>

\* adapters/base.py register_adapter(adapter_cls): the class is instantiated
\* and stored under its lowercased name
RegisterAdapterCls(a) ==
    /\ base_adapters' = RegisterIn(base_adapters, a)
    /\ UNCHANGED <<calls, fs, tip, containers, env, started, adapters>>

\* adapters/base.py get_adapter lines 211-214: ValueError when absent
BaseGetAdapterOutcome(c, language) ==
    LET language_norm == Lower(language)
    IN  IF language_norm \notin DOMAIN base_adapters
        THEN Raise(c, "ValueError", "no_adapter", -1)
        ELSE Return(c, [kind |-> "adapter", adapter |-> base_adapters[language_norm]])

\* a call of adapters/base.py get_adapter(language)
LookupBase(p) ==
    /\ calls[p].pc = "idle"
    /\ \E language \in LookupNames :
         calls' = [calls EXCEPT ![p] =
             BaseGetAdapterOutcome(
                 [Idle EXCEPT !.op = "lookup_base", !.language = language], language)]
    /\ UNCHANGED <<fs, tip, containers, env, started, adapters, base_adapters>>

(* ------------------------------------------------------------------ *)
(* adapters/base.py: constructing an adapter and registering it        *)
(* ------------------------------------------------------------------ *)

\* the methods LanguageAdapter declares abstract; the first three build commands
CommandMethods == {"build_command", "test_command", "run_contract_test_command"}
AbstractMethods ==
    CommandMethods \cup {"generate_test_code_from_contract",
                         "generate_skeleton_from_behavior", "generate_service_harness"}

\* an adapter class as written: its class attributes ("" / <<>> / FALSE when
\* not set) and the abstract methods it overrides
AdapterClass(name, file_extensions, docker_image, methods) ==
    [name |-> name, file_extensions |-> file_extensions,
     docker_image |-> docker_image, methods |-> methods]

Lua == <<"L", "u", "a">>

AdapterClasses ==
    { AdapterClass(Lua, TRUE, "lua:5.4", AbstractMethods),
      AdapterClass(<<>>, TRUE, "lua:5.4", AbstractMethods),
      AdapterClass(Lua, TRUE, "", AbstractMethods),
      AdapterClass(Lua, FALSE, "lua:5.4", AbstractMethods),
      AdapterClass(Lua, TRUE, "lua:5.4", AbstractMethods \ CommandMethods),
      AdapterClass(Lua, TRUE, "lua:5.4", AbstractMethods \ {"build_command"}) }

\* the instance of a class, as the registry and the orchestrators see it
Instance(cls) == Profile(cls.name, cls.docker_image, NoCmd, Shell("busted"))

ConstructUnchecked(cls) == "ok"

\* adapter_cls(): ABC refuses a class with an abstract method left (TypeError),
\* then LanguageAdapter.__init__ lines 36-42 checks the three attributes
Construct(cls) ==
    IF cls.methods # AbstractMethods THEN "TypeError"
    ELSE IF cls.name = <<>> THEN "ValueError"
    ELSE IF ~cls.file_extensions THEN "ValueError"
    ELSE IF cls.docker_image = "" THEN "ValueError"
    ELSE "ok"

\* what the registering call comes to, and the registry after it
Registering(c, cls, reg) ==
    LET made == Construct(cls)
        i == [c EXCEPT !.snap = [kind |-> "class", cls |-> cls]]
    IN  IF made # "ok"
        THEN [call |-> Raise(i, made, "adapter_invalid", -1), reg |-> reg]
        ELSE [call |-> Return(i, [kind |-> "registered"]),
              reg |-> RegisterIn(reg, Instance(cls))]

\* adapters/__init__.py lines 12-17 on a freshly constructed adapter, as in
\* python_adapter = PythonAdapter(); register_adapter(python_adapter)
RegisterInstance(p) ==
    /\ calls[p].pc = "idle"
    /\ \E cls \in AdapterClasses :
         LET r == Registering([Idle EXCEPT !.op = "register"], cls, adapters)
         IN  /\ calls' = [calls EXCEPT ![p] = r.call]
             /\ adapters' = r.reg
    /\ UNCHANGED <<fs, tip, containers, env, started, base_adapters>>

\* adapters/base.py lines 205-207: register_adapter(adapter_cls)
RegisterClass(p) ==
    /\ calls[p].pc = "idle"
    /\ \E cls \in AdapterClasses :
         LET r == Registering([Idle EXCEPT !.op = "register_base"], cls, base_adapters)
         IN  /\ calls' = [calls EXCEPT ![p] = r.call]
             /\ base_adapters' = r.reg
    /\ UNCHANGED <<fs, tip, containers, env, started, adapters>>

(* ------------------------------------------------------------------ *)
(* podman_runner.py: run_podman called on its own (SpecInvoke)         *)
(* ------------------------------------------------------------------ *)

\* working directories a caller passes: none, the workspace root, a checkout,
\* a directory nobody creates
InvokeCwds == {NoPath, <<WorkspaceRoot>>, <<WorkspaceRoot, "a">>, <<"gone">>}

\* exit codes of the runtime for a command that is no container run
ExitCodes == {0, 1}

PodmanExecResult(exit_code) == [kind |-> "PodmanExecResult", exit_code |-> exit_code]

\* history of one spawn: was the binary there, was the working directory
\* there, and the exit code of the process (-1 when none ran)
Spawn(binary, cwd_ok, rc) ==
    [kind |-> "spawn", binary |-> binary, cwd_ok |-> cwd_ok, rc |-> rc]

\* a call of run_podman(args, cwd), lines 75-113
Invoke(p) ==
    /\ calls[p].pc = "idle"
    /\ \E cwd \in InvokeCwds :
         LET c == [Idle EXCEPT !.op = "invoke", !.path = cwd]
             cwd_ok == cwd = NoPath \/ Exists(cwd)
             cmd == [tool |-> "podman", verb |-> "version", cwd |-> cwd]
         IN  IF ~RunPodmanSpawns(cwd)
             THEN calls' = [calls EXCEPT ![p] =
                      Raise([c EXCEPT !.snap = Spawn(env.podmanOnPath, cwd_ok, -1)],
                            "PodmanRuntimeError", "runtime_not_found", -1)]
             ELSE \E rc \in ExitCodes :
                    LET i == Issue([c EXCEPT !.snap = Spawn(TRUE, TRUE, rc)], cmd)
                    IN  calls' = [calls EXCEPT ![p] =
                            IF RunPodmanRaises(rc)
                            THEN Raise(i, "PodmanRuntimeError", "podman_failed", rc)
                            ELSE Return(i, PodmanExecResult(rc))]
    /\ UNCHANGED <<fs, tip, containers, env, started, adapters, base_adapters>>

(* ------------------------------------------------------------------ *)
(* Command composition on its own (SpecCompose)                        *)
(* ------------------------------------------------------------------ *)

\* profiles a caller may register besides the imported ones: every pairing of
\* an absent, shell-string or argument-vector build command with a
\* shell-string or argument-vector test command
BuildChoices ==
    { NoCmd, Shell("run-build"), Shell("make all"),
      Argv(<<"run-build">>), Argv(<<"make", "all">>) }
TestChoices ==
    { Shell("run-tests"), Shell("pytest -q"),
      Argv(<<"run-tests">>), Argv(<<"pytest", "-q">>) }
CustomProfiles ==
    { Profile(<<"r", "u", "b", "y">>, "ruby:3", b, t) :
        b \in BuildChoices, t \in TestChoices }

\* both orchestrator revisions compose the test command of one registered adapter
Compose(p) ==
    /\ calls[p].pc = "idle"
    /\ \E k \in DOMAIN adapters :
         calls' = [calls EXCEPT ![p] =
             Return([Idle EXCEPT !.op = "compose"],
                    [kind |-> "composed", adapter |-> adapters[k],
                     joined_cmd |-> JoinedCmd(adapters[k], "/code"),
                     inner_cmd |-> BuildTestShellCommand(adapters[k], "/workspace")])]
    /\ UNCHANGED <<fs, tip, containers, env, started, adapters, base_adapters>>

\* the one shell string a command stands for
ShellText(cmd) == IF cmd.form = "argv" THEN Join(cmd.words, " ") ELSE cmd.text

\* "<build> && <test>", or the test command alone when there is no build
ExpectedCommand(a, root) ==
    LET b == build_command(a, root)
        t == test_command(a, root)
    IN  IF b = NoCmd THEN ShellText(t) ELSE ShellText(b) \o " && " \o ShellText(t)

\* C7: the single-target test composes exactly the test command when the
\* profile has no build command and exactly "<build> && <test>" when it has
\* one, and an argument vector composes to the text of the equivalent shell
\* string.
C7_ComposedCommand ==
    \A p \in Procs :
        (Done(p) /\ calls[p].op = "compose")
            => /\ calls[p].result.joined_cmd = ExpectedCommand(calls[p].result.adapter, "/code")
               /\ calls[p].result.inner_cmd =
                      ExpectedCommand(calls[p].result.adapter, "/workspace")

(* ------------------------------------------------------------------ *)
(* Deployment and registry properties                                  *)
(* ------------------------------------------------------------------ *)

\* the containers that belong to an implementation: by name or by image
ContainersOf(id) ==
    {k \in containers :
        \/ k.name = "mlbe-svc-" \o ToString(id)
        \/ \E l \in {Perl, Python} : k.image = ImageName(l, id)}

\* C8: in every deployment the force-removal of the implementation's
\* container name is attempted before the detached run; a removal that finds
\* no such container does not raise; and when a deployment returns, first or
\* repeated, exactly one container of that implementation is running, the one
\* this deployment started.
C8_RedeployLeavesOneContainer ==
    \A p \in Procs :
        LET c == calls[p]
            rm == [tool |-> "podman", verb |-> "rm", force |-> TRUE,
                   name |-> "mlbe-svc-" \o ToString(c.impl)]
        IN  c.op = "deploy" =>
              /\ \A j \in DOMAIN c.cmds :
                    c.cmds[j].verb = "run" => \E i \in 1..(j - 1) : c.cmds[i] = rm
              /\ (c.cmds # <<>> /\ c.cmds[Len(c.cmds)] = rm /\ ~c.removal.found)
                    => (c.pc = "run" /\ c.outcome = "none")
              /\ (Done(p) /\ c.outcome = "returned")
                    => LET running == {k \in ContainersOf(c.impl) : k.state = "running"}
                       IN  /\ Cardinality(running) = 1
                           /\ \A k \in running : k.host_port = c.result.host_port

\* a second deployment of an implementation whose container was running
\* has removed that container and returned
C8_Witness ==
    \E p \in Procs :
        /\ Done(p)
        /\ calls[p].op = "deploy"
        /\ calls[p].round = 2
        /\ calls[p].outcome = "returned"
        /\ calls[p].removal.removed

\* C9: a returned deployment has url "http://localhost:<hostPort>", its
\* hostPort is the caller's value when one was passed and 18000 + id when
\* none was, and the detached run it issued maps that hostPort to the
\* deployment's internalPort.
C9_UrlAndPorts ==
    \A p \in Procs :
        LET c == calls[p]
            r == c.result
        IN  (Done(p) /\ c.op = "deploy" /\ c.outcome = "returned") =>
              /\ r.url = "http://localhost:" \o ToString(r.host_port)
              /\ r.host_port = (IF c.host_port = -1 THEN 18000 + c.impl ELSE c.host_port)
              /\ LET run == c.cmds[Len(c.cmds)]
                 IN  /\ run.verb = "run"
                     /\ run.detached
                     /\ run.ports = ToString(r.host_port) \o ":" \o ToString(r.internal_port)
              /\ \E k \in containers :
                    /\ k.name = r.container_name
                    /\ k.host_port = r.host_port
                    /\ k.internal_port = r.internal_port

\* deployments returned both with a caller-supplied port and with the default
C9_Witness ==
    \E p \in Procs :
        /\ Done(p)
        /\ calls[p].op = "deploy"
        /\ calls[p].outcome = "returned"
        /\ calls[p].host_port # -1
        /\ \E k \in containers :
              k.name # calls[p].result.container_name /\ k.host_port >= 18000

\* every spelling of a name in upper and lower case letters
RECURSIVE CaseVariants(_)
CaseVariants(name) ==
    IF name = <<>> THEN {<<>>}
    ELSE { <<ch>> \o rest : ch \in {LowerChar(Head(name)), UpperChar(Head(name))},
                            rest \in CaseVariants(Tail(name)) }

\* get_adapter(language) as the caller sees it
Found(language) ==
    IF HasAdapter(language) THEN [found |-> TRUE, adapter |-> get_adapter(language)]
    ELSE [found |-> FALSE, adapter |-> NoCmd]

\* C10: for every registered profile, the lookup of its name, of its name in
\* upper case and of every other case variant of its name returns that same
\* profile; and a lookup that returned gave a profile whose name is the name
\* asked for up to letter case.
C10_LookupIgnoresCase ==
    /\ \A k \in DOMAIN adapters :
          LET a == adapters[k]
          IN  /\ Found(a.name) = [found |-> TRUE, adapter |-> a]
              /\ Found(Upper(a.name)) = [found |-> TRUE, adapter |-> a]
              /\ \A v \in CaseVariants(a.name) : Found(v) = [found |-> TRUE, adapter |-> a]
    /\ \A p \in Procs :
          (Done(p) /\ calls[p].op = "lookup" /\ calls[p].outcome = "returned")
              => Lower(calls[p].result.adapter.name) = Lower(calls[p].language)

\* a lookup by the upper-case spelling returned a profile registered under
\* a name spelled differently
C10_Witness ==
    \E p \in Procs :
        /\ Done(p)
        /\ calls[p].op = "lookup"
        /\ calls[p].outcome = "returned"
        /\ calls[p].language = Upper(calls[p].result.adapter.name)
        /\ calls[p].language # calls[p].result.adapter.name
        /\ calls[p].result.adapter \in Registrable

\* whether a registry holds a profile whose name is `language` up to case
Registered(reg, language) ==
    \E k \in DOMAIN reg : Lower(reg[k].name) = Lower(language)

\* C11: in every registry state, a lookup of a name that matches no
\* registered profile raises the registry's not-found error (KeyError from
\* adapters/__init__.py, ValueError from adapters/base.py) and returns no
\* profile, default or otherwise.
C11_UnknownNameRaises ==
    [][\A p \in Procs :
          LET c == calls'[p]
              reg == IF c.op = "lookup" THEN adapters ELSE base_adapters
          IN  (calls[p].pc = "idle" /\ c.op \in {"lookup", "lookup_base"}
                 /\ ~Registered(reg, c.language))
                => /\ c.outcome = "raised"
                   /\ c.err.type = (IF c.op = "lookup" THEN "KeyError" ELSE "ValueError")
                   /\ c.result = NoResult]_vars

\* lookups of a name nobody registered have raised, from a registry that
\* holds profiles
C11_Witness ==
    \E p \in Procs :
        /\ Done(p)
        /\ calls[p].op \in {"lookup", "lookup_base"}
        /\ calls[p].language = <<"l", "u", "a">>
        /\ calls[p].outcome = "raised"
        /\ Ruby \in DOMAIN adapters

\* a row lacks what a test run needs: a registered profile for its language,
\* a remote URL, a revision
LacksProfileOrMetadata(id) ==
    \/ ~Registered(adapters, Impls[id].language)
    \/ Impls[id].repo_url = NoUrl
    \/ Impls[id].revision = NoRev

\* C12: a single-target test of a target whose profile is not registered, or
\* that has no remote URL or no revision, raises before anything else
\* happens: the call never gets past its checks, it issues no git and no
\* container command, creates no directory, and ends raised.
C12_PreconditionErrorsComeFirst ==
    \A p \in Procs :
        LET c == calls[p]
        IN  (c.op \in {"test", "test_rt"} /\ HasRow(c.impl) /\ LacksProfileOrMetadata(c.impl))
              => /\ c.pc \in {"pre", "done"}
                 /\ c.cmds = <<>>
                 /\ c.touched = {}
                 /\ (c.pc = "done" => c.outcome = "raised")

\* C13: run_podman reports the runtime binary as missing exactly when the
\* binary cannot be found, reports a failed invocation carrying the exit code
\* exactly when the process ran and exited non-zero, and reports nothing else
\* (a missing working directory, say) as a missing binary.
C13_ToolMissingOnlyForTheBinary ==
    \A p \in Procs :
        LET c == calls[p]
        IN  (Done(p) /\ c.op = "invoke")
              => /\ (c.err.what = "runtime_not_found") <=> ~c.snap.binary
                 /\ (c.err.what = "podman_failed") <=> (c.snap.rc > 0)
                 /\ (c.err.what = "podman_failed") => (c.err.exit_code = c.snap.rc)

\* C14: every git step of a stage call runs the configured binary GIT_BIN:
\* when GIT_BIN is absent or not executable no git command runs and the call
\* raises the missing-tool error, which it raises in no other case; a missing
\* directory raises the missing-path error; and every error a stage call
\* raises is the module's typed error, never a raw operating-system exception.
C14_GitFailuresAreTyped ==
    \A p \in Procs :
        LET c == calls[p]
        IN  c.op = "stage" =>
              /\ ~env.gitBinUsable => c.cmds = <<>>
              /\ (Done(p) /\ c.outcome = "raised") =>
                    /\ c.err.type = "PodmanRuntimeError"
                    /\ (c.err.what = "git_not_usable") => ~env.gitBinUsable
                    /\ (c.err.what = "git_cwd_missing") => ~Exists(c.path)

\* the git commands of the update path, in the order of lines 247-249
UpdateSteps(c) ==
    << [tool |-> "git", verb |-> "fetch", path |-> c.path, rev |-> NoRev],
       [tool |-> "git", verb |-> "checkout", path |-> c.path, rev |-> c.rev],
       [tool |-> "git", verb |-> "pull", path |-> c.path, rev |-> c.rev] >>

\* the call found its workspace directory present
OnUpdatePath(c) == c.op = "stage" /\ c.pc # "stage" /\ c.round # 1

\* C15: a stage call that finds the workspace present issues fetch, then
\* checkout(revision), then the fast-forward-only pull, each only after the
\* one before it succeeded; a step that fails ends the call raised with the
\* module's error carrying git's exit code, no later step is issued and no
\* path is returned; a call that returns has issued all three.
C15_UpdateStepsInOrder ==
    \A p \in Procs :
        LET c == calls[p]
            n == Len(c.cmds)
        IN  OnUpdatePath(c) =>
              /\ n <= 3
              /\ c.cmds = SubSeq(UpdateSteps(c), 1, n)
              /\ c.pc = "checkout_u" => n = 1
              /\ c.pc = "pull" => n = 2
              /\ c.fault => (Done(p) /\ c.outcome = "raised")
              /\ (Done(p) /\ c.outcome = "raised") =>
                    /\ c.result = NoResult
                    /\ c.err.type = "PodmanRuntimeError"
                    /\ c.err.what = "git_failed" => (n >= 1 /\ c.err.exit_code > 0)
              /\ (Done(p) /\ c.outcome = "returned") =>
                    /\ n = 3
                    /\ ~c.fault
                    /\ c.result = [kind |-> "path", path |-> c.path]

\* an update whose fetch and checkout succeeded and whose pull failed
C15_Witness ==
    \E p \in Procs :
        /\ OnUpdatePath(calls[p])
        /\ Done(p)
        /\ calls[p].outcome = "raised"
        /\ calls[p].err.what = "git_failed"
        /\ Len(calls[p].cmds) = 3

\* C16: every stage call that returns, whether it cloned afresh or updated
\* an existing workspace, issued checkout(revision) as its last git command,
\* and HEAD is at the commit the revision names when it returns.
C16_EndsWithCheckout ==
    \A p \in Procs :
        LET c == calls[p]
        IN  (Done(p) /\ c.op = "stage" /\ c.outcome = "returned") =>
              /\ c.cmds # <<>>
              /\ c.cmds[Len(c.cmds)] =
                    [tool |-> "git", verb |-> "checkout", path |-> c.path, rev |-> c.rev]
              /\ c.snap.head = c.snap.want

\* the verbs of the container-runtime commands a call issued, in order
RECURSIVE PodmanVerbs(_)
PodmanVerbs(cmds) ==
    IF cmds = <<>> THEN <<>>
    ELSE IF Head(cmds).tool = "podman" THEN <<Head(cmds).verb>> \o PodmanVerbs(Tail(cmds))
    ELSE PodmanVerbs(Tail(cmds))

\* C17: a service deployment issues its git commands first, then the image
\* build, then the force-removal of the container name, then the detached run,
\* in that order and each at most once; the build is issued only after staging
\* returned, the removal only after the build exited 0; a deployment whose
\* staging or build failed ends raised without a removal or a run issued.
C17_DeployStepsInOrder ==
    \A p \in Procs :
        LET c == calls[p]
            verbs == PodmanVerbs(c.cmds)
        IN  c.op = "deploy" =>
              /\ Len(verbs) <= 3
              /\ verbs = SubSeq(<<"build", "rm", "run">>, 1, Len(verbs))
              /\ \A i, j \in DOMAIN c.cmds :
                    (i < j /\ c.cmds[j].tool = "git") => c.cmds[i].tool = "git"
              /\ verbs # <<>> => c.snap # NoResult
              /\ Len(verbs) >= 2 => (c.build # NoResult /\ c.build.rc = 0)
              /\ (c.build # NoResult /\ c.build.rc # 0)
                    => (Done(p) /\ c.outcome = "raised" /\ verbs = <<"build">>)
              /\ (Done(p) /\ c.snap = NoResult)
                    => (c.outcome = "raised" /\ verbs = <<>>)

\* a deployment staged its repository, its image build failed, and it ended
\* raised with the build as its last command
C17_Witness ==
    \E p \in Procs :
        /\ Done(p)
        /\ calls[p].op = "deploy"
        /\ calls[p].outcome = "raised"
        /\ calls[p].err.what = "image_build_failed"
        /\ calls[p].build # NoResult
        /\ calls[p].build.rc = 1
        /\ PodmanVerbs(calls[p].cmds) = <<"build">>

\* the two rows name different targets: another repository, or the same
\* repository at another revision
DistinctTargets(a, b) ==
    \/ RemoteOf(Impls[a].repo_url) # RemoteOf(Impls[b].repo_url)
    \/ Impls[a].revision # Impls[b].revision

\* the call is a paired test that has issued its container run
PairedRunIssued(c) ==
    /\ c.op \in {"paired", "paired_rt"}
    /\ c.cmds # <<>>
    /\ c.cmds[Len(c.cmds)].tool = "podman"

\* C18: when a paired test of two distinct targets runs its container, the
\* host directory mounted at /code is not the host directory mounted at
\* /tests, and the primary's checkout is at the commit it was at when its own
\* staging returned: staging the harness did not move it.
C18_PairedWorkspacesAreSeparate ==
    \A p \in Procs :
        LET c == calls[p]
            run == c.cmds[Len(c.cmds)]
        IN  (PairedRunIssued(c) /\ DistinctTargets(c.impl, c.impl2)) =>
              /\ run.mounts[1][1] # run.mounts[2][1]
              /\ fs[run.mounts[1][1]].head = c.head1

TestRunIssued(c) ==
    /\ c.op \in {"test", "test_rt", "paired", "paired_rt"}
    /\ c.cmds # <<>>
    /\ c.cmds[Len(c.cmds)].tool = "podman"

\* C20: every container run a single-target test issues has exactly one
\* volume mount, the staged workspace at /code, works in /code and runs the
\* profile's commands built for /code; and the working directory of every
\* test run, single-target or paired, is one of its mount targets.
C20_SingleRunShape ==
    \A p \in Procs :
        LET c == calls[p]
            run == c.cmds[Len(c.cmds)]
            profile == adapters[Lower(Impls[c.impl].language)]
        IN  TestRunIssued(c) =>
              /\ \E i \in DOMAIN run.mounts : run.mounts[i][2] = run.workdir
              /\ c.op \in {"test", "test_rt"} =>
                    /\ run.mounts = << <<c.path, "/code">> >>
                    /\ run.workdir = "/code"
                    /\ run.argv[Len(run.argv)] = ExpectedCommand(profile, "/code")

\* the container runs a call has issued
ContainerRuns(c) ==
    { c.cmds[j] : j \in {i \in DOMAIN c.cmds :
                            c.cmds[i].tool = "podman" /\ c.cmds[i].verb = "run"} }

AllTestOps == {"test", "paired", "test_rt", "paired_rt"}

\* C21: a foreground run of PodmanRunner.run carries --rm exactly when the
\* caller did not switch remove off; every run the single-target and paired
\* test orchestrators issue is a foreground run that carries it; the detached
\* run of a deployment does not; and the step that ends a test call, returned
\* or raised, or an engine run that kept remove on, leaves the host's set of
\* containers as it was.
C21_TestRunsAreAutoRemoved ==
    [][\A p \in Procs :
          LET c == calls'[p]
              ends == calls[p].pc # "done" /\ c.pc = "done"
          IN  /\ \A run \in ContainerRuns(c) :
                    /\ c.op = "engine_run" => (~run.detached /\ run.rm = c.snap.remove)
                    /\ c.op \in AllTestOps => (~run.detached /\ run.rm)
                    /\ c.op = "deploy" => (run.detached /\ ~run.rm)
                    /\ run.detached => ~run.rm
              /\ (ends /\ c.op \in AllTestOps) => containers' = containers
              /\ (ends /\ c.op = "engine_run" /\ c.snap.remove)
                    => containers' = containers]_vars

\* a test whose container ran and failed has ended, next to the container an
\* earlier engine run that had switched remove off left behind
C21_Witness ==
    /\ Done("p1")
    /\ calls["p1"].op \in AllTestOps
    /\ calls["p1"].ran # NoResult
    /\ calls["p1"].ran.rc = 7
    /\ \E k \in containers : k.name = "" /\ k.state = "exited"

\* what one step does to the workspace directories: none disappears, none
\* that held a checkout stops holding one, a clone succeeds only into a path
\* that did not exist, and a stage call that finds its workspace present but
\* not a checkout ends raised with the directories as they were
WorkspacesKept ==
    /\ \A d \in DOMAIN fs :
          /\ d \in DOMAIN fs'
          /\ IsRepo(fs[d]) => IsRepo(fs'[d])
    /\ \A p \in Procs :
          LET c == calls[p]
              n == calls'[p]
              last == n.cmds[Len(n.cmds)]
          IN  /\ (/\ Len(n.cmds) > Len(c.cmds)
                  /\ last.tool = "git"
                  /\ last.verb = "clone"
                  /\ n.outcome # "raised") => last.path \notin DOMAIN fs
              /\ (/\ c.pc = "fetch"
                  /\ n.pc # "fetch"
                  /\ Exists(c.path)
                  /\ ~IsRepo(fs[c.path]))
                    => /\ n.outcome = "raised"
                       /\ n.err.type = "PodmanRuntimeError"
                       /\ fs' = fs

\* C22: a workspace directory is created by the first stage call for its
\* label and updated in place by later ones; the engine never deletes or
\* recreates it: once it exists it exists in every later state, and a stage
\* call that finds it present but not a valid checkout fails and leaves it
\* untouched.
C22_WorkspaceIsNeverDeleted == [][WorkspacesKept]_vars

\* the class lacks a name, a container image, or every command method
Incomplete(cls) ==
    \/ cls.name = <<>>
    \/ cls.docker_image = ""
    \/ cls.methods \cap CommandMethods = {}

\* the class sets every attribute and overrides every abstract method
WellFormed(cls) ==
    /\ cls.name # <<>>
    /\ cls.docker_image # ""
    /\ cls.file_extensions
    /\ cls.methods = AbstractMethods

C24_TokenIsEmbeddedAndNeverShown ==
    \A p \in Procs :
        LET c == calls[p]
        IN  c.op = "stage" =>
              /\ (env.token /\ c.clone_url # NoUrl) => c.clone_url.token
              /\ ~c.stderr_has_token

Orchestrations == {"test", "paired", "deploy"}

\* a command the call issued has failed: git could not reach the remote or
\* exited non-zero, the build or the container run exited non-zero, the
\* removal found the container and could not remove it (a removal that finds
\* no container is not a failure)
StepFailed(c) ==
    \/ c.fault
    \/ c.outcome = "raised"
    \/ c.build # NoResult /\ c.build.rc # 0
    \/ c.removal # NoResult /\ c.removal.found /\ ~c.removal.removed
    \/ c.ran # NoResult /\ c.ran.rc # 0

\* C25: a single-target test, a paired test and a deployment issue each git
\* or container command at most once, and once a command has failed or the
\* call has ended they issue no further command.
C25_NoRetries ==
    [][\A p \in Procs :
          LET c == calls[p]
              n == calls'[p]
          IN  (n.op \in Orchestrations /\ c.op = n.op) =>
                /\ \A i, j \in DOMAIN n.cmds : i # j => n.cmds[i] # n.cmds[j]
                /\ Len(n.cmds) > Len(c.cmds) => (~StepFailed(c) /\ c.pc # "done")]_vars

\* C26: when the removal step of a deployment fails although the container
\* exists (any failure other than "no such container"), the deployment ends
\* raised with a typed error, the removal is the last command it issued, and
\* it returns no ServiceDeployment; a removal that finds no container lets the
\* deployment go on.
C26_RemovalFailureIsRaised ==
    \A p \in Procs :
        LET c == calls[p]
        IN  (c.op = "deploy" /\ c.removal # NoResult) =>
              /\ (c.removal.found /\ c.removal.rc # 0) =>
                    /\ Done(p)
                    /\ c.outcome = "raised"
                    /\ c.err.type \in {"ServiceDeploymentError", "PodmanRuntimeError"}
                    /\ c.cmds[Len(c.cmds)].verb = "rm"
                    /\ c.result = NoResult
              /\ (~c.removal.found /\ Done(p)) => c.cmds[Len(c.cmds)].verb = "run"

\* C27: when the container of a single-target test is started, HEAD of the
\* workspace it mounts is at the commit the call's revision names, and is
\* where the call's own staging left it, whatever other calls run at the same
\* time.
C27_MountedHeadIsTheRequestedRevision ==
    \A p \in Procs :
        LET c == calls[p]
        IN  (c.op = "test" /\ c.ran # NoResult) =>
              /\ c.head1 = c.snap.want
              /\ c.head1 = c.snap.head

\* the containers that carry the deterministic name of an implementation
NamedFor(id) == {k \in containers : k.name = "mlbe-svc-" \o ToString(id)}

\* C28: while two deployments of one implementation id run at the same time,
\* in whatever order their steps interleave, at most one container named
\* mlbe-svc-<id> exists at any time; and when both have returned a
\* ServiceDeployment, exactly one container of that name exists and it is
\* running.
C28_ConcurrentDeploysLeaveOneContainer ==
    /\ \A id \in ImplIds : Cardinality(NamedFor(id)) <= 1
    /\ \A p, q \in Procs :
          (/\ p # q
           /\ calls[p].op = "deploy" /\ calls[q].op = "deploy"
           /\ calls[p].impl = calls[q].impl
           /\ Done(p) /\ Done(q)
           /\ calls[p].outcome = "returned" /\ calls[q].outcome = "returned")
              => /\ Cardinality(NamedFor(calls[p].impl)) = 1
                 /\ \A k \in NamedFor(calls[p].impl) : k.state = "running"

\* two deployments of one implementation, each started while no container of
\* that implementation was running, have both returned: the second removed the
\* container the first had started
C28_Witness ==
    /\ calls["p1"].op = "deploy" /\ calls["p2"].op = "deploy"
    /\ calls["p1"].impl = calls["p2"].impl
    /\ Done("p1") /\ Done("p2")
    /\ calls["p1"].outcome = "returned" /\ calls["p2"].outcome = "returned"
    /\ calls["p1"].round # 2 /\ calls["p2"].round # 2
    /\ calls["p2"].removal.removed

\* the errors a deployment raises for the implementation's metadata
MetadataErrors ==
    {"impl_not_found", "no_repo_url", "unsupported_language", "not_a_cgi_script"}

\* C29: a deployment that raises for invalid metadata (no such row, no
\* repo_url, a language other than perl and python, a Perl file_path that does
\* not end in ".cgi") has issued no git and no container command and has
\* created or written no directory or file.
C29_MetadataErrorsComeFirst ==
    \A p \in Procs :
        LET c == calls[p]
        IN  (c.op = "deploy" /\ Done(p) /\ c.outcome = "raised"
               /\ c.err.what \in MetadataErrors)
              => /\ c.cmds = <<>>
                 /\ c.touched = {}

\* C30: when the deployment of an implementation whose container was running
\* fails at its detached run, the earlier container has been removed, no
\* container named mlbe-svc-<id> exists once the call has ended, and the call
\* has raised and returned no ServiceDeployment.
C30_FailedRedeployLeavesNoContainer ==
    \A p \in Procs :
        LET c == calls[p]
        IN  (c.op = "deploy" /\ c.round = 2 /\ Done(p)
               /\ c.err.what = "container_run_failed")
              => /\ c.outcome = "raised"
                 /\ c.result = NoResult
                 /\ c.removal # NoResult
                 /\ c.removal.removed
                 /\ NamedFor(c.impl) = {}

Quiet(p) == \A q \in Procs \ {p} : calls[q].pc = "idle"

\* the state after start-up, with the given registry and with a token set
\* (GITHUB_TOKEN, GH_TOKEN or GITHUB_PAT) or not, as `tokens` allows
InitEnv(registry, tokens) ==
    /\ calls = [p \in Procs |-> Idle]
    /\ fs = <<>>
    /\ tip = [r \in Remotes |-> 2]
    /\ containers = {}
    /\ env \in [gitBinUsable : BOOLEAN, gitOnPath : BOOLEAN, podmanOnPath : BOOLEAN,
                token : tokens]
    /\ started = 0
    /\ adapters = registry
    /\ base_adapters = <<>>

InitWith(registry) == InitEnv(registry, {FALSE})

\* start-up with or without a token in the environment
InitToken == InitEnv(ImportedAdapters, BOOLEAN)

\* the process after start-up: nothing staged, nothing running, the imported
\* adapters registered
Init == InitWith(ImportedAdapters)

\* start-up with one more profile registered
InitCompose == \E custom \in CustomProfiles : InitWith(RegisterIn(ImportedAdapters, custom))

StageStep(p) ==
    \/ StageCheck(p)
    \/ StageFetch(p)
    \/ StageCheckout(p)
    \/ StagePull(p)
    \/ StageClone(p)

\* stage calls one after the other
NextStage ==
    \/ StartStage("p1")
    \/ StageStep("p1")
    \/ StageAgain("p1")
    \/ Finish("p1")
    \/ \E r \in Remotes : Push(r)

SpecStage == Init /\ [][NextStage]_vars

NextCompose ==
    \/ Compose("p1")
    \/ Finish("p1")

SpecCompose == InitCompose /\ [][NextCompose]_vars

\* registrations and lookups
NextRegistry ==
    \/ \E a \in Registrable : RegisterAdapter(a)
    \/ \E a \in Registrable : RegisterAdapterCls(a)
    \/ Lookup("p1")
    \/ LookupBase("p1")
    \/ RegisterInstance("p1")
    \/ RegisterClass("p1")
    \/ Finish("p1")

SpecRegistry == Init /\ [][NextRegistry]_vars

\* direct calls of run_podman, with staging to create directories
NextInvoke ==
    \/ StartStage("p1")
    \/ StageStep("p1")
    \/ Invoke("p1")
    \/ Finish("p1")

SpecInvoke == Init /\ [][NextInvoke]_vars

\* deployments one after the other
NextDeploy ==
    \/ StartDeploy("p1")
    \/ DeployPre("p1")
    \/ StageStep("p1")
    \/ DeployBuild("p1")
    \/ DeployRemove("p1")
    \/ DeployRun("p1")
    \/ Finish("p1")

SpecDeploy == Init /\ [][NextDeploy]_vars

\* two callers staging at the same time
NextStageConc ==
    \E p \in Procs :
        \/ StartStage(p)
        \/ StageStep(p)
        \/ Finish(p)

SpecStageConc == Init /\ [][NextStageConc]_vars

\* the test orchestrators, one call after the other
NextTest ==
    \/ StartTest("p1")
    \/ TestPre("p1")
    \/ TestRun("p1")
    \/ StartPaired("p1")
    \/ PairedPre("p1")
    \/ PairedStageHarness("p1")
    \/ PairedRun("p1")
    \/ StageStep("p1")
    \/ StartEngineRun("p1")
    \/ EngineRun("p1")
    \/ StartTestRt("p1")
    \/ TestRtStage("p1")
    \/ TestRtRun("p1")
    \/ StartPairedRt("p1")
    \/ PairedRtStageCode("p1")
    \/ PairedRtStageTests("p1")
    \/ PairedRtRun("p1")
    \/ Finish("p1")

SpecTest == Init /\ [][NextTest]_vars

\* tests, engine runs and deployments, one call after the other
NextRun ==
    \/ NextTest
    \/ StartDeploy("p1")
    \/ DeployPre("p1")
    \/ DeployBuild("p1")
    \/ DeployRemove("p1")
    \/ DeployRun("p1")

SpecRun == Init /\ [][NextRun]_vars

\* stage calls one after the other, with and without a token configured
SpecToken == InitToken /\ [][NextStage]_vars

\* two callers testing implementations at the same time
NextTestConc ==
    \E p \in Procs :
        \/ StartTest(p)
        \/ TestPre(p)
        \/ StageStep(p)
        \/ TestRun(p)
        \/ Finish(p)

SpecTestConc == Init /\ [][NextTestConc]_vars

\* two callers deploying at the same time
NextDeployConc ==
    \E p \in Procs :
        \/ StartDeployConc(p)
        \/ DeployPre(p)
        \/ StageStep(p)
        \/ DeployBuild(p)
        \/ DeployRemove(p)
        \/ DeployRun(p)
        \/ Finish(p)

SpecDeployConc == Init /\ [][NextDeployConc]_vars

====
